---- MODULE Spec2Model ----
(***************************************************************************)
(* ghcloner: the bounded worker pool that executes clone jobs, the         *)
(* progress tracker it reports to, and the Clone Batch use case that       *)
(* drives both.                                                            *)
(*                                                                         *)
(*   internal/infrastructure/concurrency/worker_pool.go  WorkerPool        *)
(*   internal/domain/cloning/progress.go                 ProgressTracker   *)
(*   internal/domain/cloning/job.go                      CloneJob          *)
(*   internal/infrastructure/git/client.go               GitClient         *)
(*   internal/application/usecases/clone_repositories.go Execute           *)
(*                                                                         *)
(* and, each on its own, a clone job's status methods, the token bucket    *)
(* rate limiter of the provider clients and the enumeration of an owner's  *)
(* repositories:                                                           *)
(*                                                                         *)
(*   internal/application/services/cloning_service.go    GitHubClient,     *)
(*                                                       TokenBucket-      *)
(*                                                       RateLimiter       *)
(*   internal/infrastructure/bitbucket/client.go         BitbucketClient   *)
(*   internal/application/usecases/fetch_repositories.go Execute           *)
(*   internal/domain/repository/errors.go                RepositoryFilter  *)
(*                                                                         *)
(* Three more specifications follow a tracker with its subscriber         *)
(* (notifyUpdate and the updates channel), the flow of a batch of any      *)
(* size through Submit, the results channel and collectResults, and the    *)
(* retry loop of one job under any retry policy.                           *)
(*                                                                         *)
(* Of the batch, time stamps, durations, sizes and log lines are not       *)
(* modelled: no modelled branch reads them.  Of a backoff, the length the  *)
(* timer was armed with is kept, not the passing of time.                  *)
(***************************************************************************)
EXTENDS Integers, Sequences, FiniteSets, TLC

\* ------------------------------------------------------------------ bounds
\* Number of valid jobs of the batch (len(validJobs) in Execute).
NumJobs == 2
\* Largest config.MaxWorkers tried; Init draws the pool size from 1..MaxWorkers.
MaxWorkers == 2
\* wp.maxRetries (config.MaxRetries; the code's default is 3).
MaxRetries == 1
\* Largest total of a tracker exercised on its own, and the number of
\* operations applied to it.
MaxTotal == 3
MaxOps == 5
\* the rate limiter: clock ticks to the hour, largest hourly limit, last tick
TicksPerHour == 3
MaxLimit == 2
MaxTime == 4
\* enumeration: most repositories an owner has, largest per_page
MaxRepos == 3
MaxPerPage == 2
\* the largest batch whose flow through the pool is followed
MaxBatch == 4
\* the jobs producers hand to the Job Manager, and the submissions to the
\* pool its scheduler is followed for
MaxSubmits == 3
MaxDispatch == 3
\* destinations: owners and repository names to choose from, and the
\* largest batch
MaxOwners == 2
MaxNames == 2
MaxDestJobs == 2
\* a tracker that is closed: the calls made on it
MaxCloseOps == 3
\* a pool used again: the runs of Execute and the jobs of one run
MaxRuns == 2
MaxRunJobs == 2
\* job ids: the jobs created and the readings of the clock (UnixNano)
MaxCreated == 3
MaxClock == 4
\* a job run on its own: largest wp.maxRetries and wp.retryDelay (seconds)
MaxPoolRetries == 3
MaxRetryDelay == 2

Jobs == 1..NumJobs

\* ------------------------------------------------------------------ state
VARIABLES
    maxWorkers,      \* ants pool capacity (config.MaxWorkers)
    skipExisting,    \* req.Options.SkipExisting, shared by the batch's jobs
    destExists,      \* destExists[j]: <destination>/.git is a directory
    status,          \* job.Status
    jobErr,          \* job.Error: "nil", "error", "job cancelled", "skipped"
    pc,              \* where the pool task of job j stands
    attempt,         \* executeJob's loop variable
    lastErr,         \* executeJob's lastErr
    result,          \* the JobResult a handler built and is about to send
    tracker,         \* ProgressTracker.progress
    poolTracker,     \* wp.progressTracker != nil
    results,         \* wp.results (buffered channel), oldest first
    resultsClosed,   \* wp.results has been closed
    wg,              \* wp.wg counter
    cancelled,       \* wp.ctx is done
    poolClosed,      \* the ants pool has been released
    callerCancelled, \* the ctx handed to Execute is done
    ucpc,            \* where Execute stands
    nextSubmit,      \* SubmitJobs' loop position
    collectIdx,      \* collectResults' loop variable i
    collected,       \* collectResults' results slice (as a set: its order,
                     \* the order of receipt, is read by nothing)
    response,        \* what Execute returned
    snapshot,        \* the last copy GetProgress handed out
    ops,             \* tracker operations applied so far (tracker on its own)
    lastOp,          \* the tracker operation applied last (tracker on its own)
    succeeded,       \* history: a CloneRepository call of job j returned nil
    cloneCalls,      \* history: calls of gitClient.CloneRepository made by
                     \* the executeJob of job j that is running
    termCalls,       \* history: terminal tracker transitions per job
    sent,            \* history: Job Results of job j put on wp.results
    retryCount,      \* job.RetryCount
    request,         \* the request Execute was called with (Options after
                     \* "Set defaults")
    prevStatus,      \* history: job.Status before the operation applied last
                     \* (a CloneJob on its own)
    now,             \* time.Now(), in clock ticks
    rl,              \* the TokenBucketRateLimiter: limit, tokens, lastRefill,
                     \* resetTime
    mu,              \* r.mu: "free" or the caller holding it
    lpc,             \* where each caller of the limiter is
    ctxDone,         \* the caller's ctx is cancelled
    deadline,        \* when the timer of the Wait in progress fires
    ret,             \* what the caller's last call returned
    consumed,        \* history: what the caller's last call took off r.tokens
    winStart,        \* history: the first tick of the one-hour window watched
    winCount,        \* history: Waits that returned nil inside that window,
                     \* counted up to limit+1
    hinted,          \* history: UpdateRemaining or UpdateResetTime was called
    catalogue,       \* the provider's list of the owner's repositories
    freq,            \* the request FetchRepositoriesUseCase.Execute was
                     \* called with (after "Set defaults")
    fpc,             \* where Execute stands: "idle", "loop", "done"
    page,            \* FetchRepositories' page
    repos,           \* FetchRepositories' repos / allRepos
    fctxDone,        \* Execute's ctx is cancelled
    pagesAsked,      \* history: the page numbers requested
    pageLens,        \* history: the items each requested page held (-1: the
                     \* request failed)
    fetched,         \* what FetchRepositories returned
    fresp,           \* what Execute returned
    updates,         \* pt.updates (buffered channel), oldest first
    received,        \* the snapshot the subscriber received last
    todo,            \* jobs of the batch no worker has started
    busy,            \* workers between StartJob and their terminal call
    calls,           \* history: terminal calls made, by kind
    spc,             \* where the batch behind the subscription stands:
                     \* "idle", "running", "finished"
    stage,           \* the flow of a batch: where each of its jobs is,
                     \* "new", "running", "send" or "done"
    maxRetries,      \* wp.maxRetries
    retryDelay,      \* wp.retryDelay, in seconds
    timer,           \* executeJob's retryDelay: what the time.After of the
                     \* backoff in progress was given (0: no backoff)
    jm,              \* the JobManager: its two queues, its context, where
                     \* scheduleJobs stands and the jobs it holds, and the
                     \* history of what was accepted (taken: how many in
                     \* all), handed on and dropped
    idgen,           \* job ids: the wall clock time.Now() reads (clock), the
                     \* ids NewCloneJob gave, in order (ids), and the keys
                     \* of the service's activeJobs map
    dst,             \* destinations: the repositories of an accepted batch
                     \* (repos), Options.CreateOrgDirs (orgDirs) and where
                     \* each job is: "new", "cloning" or "done" (at)
    rp,              \* a pool used for one Execute after another: the run
                     \* in progress and where it stands, its jobs left to
                     \* submit, tasks running, results buffered, the wait
                     \* group, whether wp.results is closed, how often it was
                     \* closed, and the panic that ended the program
    ptc,             \* a tracker that is closed: pt.progress, the calls made
                     \* on it, the snapshots buffered in pt.updates, whether
                     \* pt.done and pt.updates are closed, what the
                     \* subscriber saw last and the panic that ended the
                     \* program
    svc              \* the CloningService: the jobs in s.activeJobs (active)
                     \* and, history, the jobs CancelJob or CancelAllJobs
                     \* cancelled

vars == <<maxWorkers, skipExisting, destExists, status, jobErr, pc,
          attempt, lastErr, result, tracker, poolTracker, results,
          resultsClosed, wg, cancelled, poolClosed, callerCancelled, ucpc,
          nextSubmit, collectIdx, collected, response, snapshot, ops,
          lastOp, succeeded, cloneCalls, termCalls, sent, retryCount,
          request, prevStatus, now, rl, mu, lpc, ctxDone, deadline, ret,
          consumed, winStart, winCount, hinted, catalogue, freq, fpc, page,
          repos, fctxDone, pagesAsked, pageLens, fetched, fresp, updates,
          received, todo, busy, calls, spc, stage, maxRetries, retryDelay,
          timer, jm,
          idgen,
          dst,
          rp,
          ptc,
          svc>>

jobVars == <<status, jobErr, pc, attempt, lastErr, result, cloneCalls,
             termCalls, sent, succeeded, timer>>
\* the components exercised on their own; a batch leaves them alone
jobAloneVars == <<prevStatus>>
rlVars == <<now, rl, mu, lpc, ctxDone, deadline, ret, consumed, winStart,
            winCount, hinted>>
fetchVars == <<catalogue, freq, fpc, page, repos, fctxDone, pagesAsked,
               pageLens, fetched, fresp>>
subVars == <<updates, received, todo, busy, calls, spc>>
\* the Job Manager, job ids, ...
lateVars == <<jm, idgen, dst, rp, ptc, svc>>
sideVars == <<rlVars, fetchVars, subVars, stage, lateVars>>
\* what no step of a batch writes, Execute's reading of its request apart
poolEnv == <<maxWorkers, skipExisting, retryCount, jobAloneVars, sideVars,
             maxRetries, retryDelay>>
envVars == <<poolEnv, request>>
trkVars == <<snapshot, ops, lastOp>>
ucVars == <<ucpc, nextSubmit, collectIdx, collected, response>>

\* ------------------------------------------------------------------ job.go
JobStatusPending == "pending"
JobStatusRunning == "running"
JobStatusCompleted == "completed"
JobStatusFailed == "failed"
JobStatusSkipped == "skipped"

TerminalStatus == {JobStatusCompleted, JobStatusFailed, JobStatusSkipped}

NoResult == [job |-> 0, success |-> FALSE]

\* NewJobResult(job, success, size)
NewJobResult(j, success) == [job |-> j, success |-> success]

\* ------------------------------------------------------------ progress.go
NewProgress(total) ==
    [total |-> total, completed |-> 0, failed |-> 0, skipped |-> 0,
     inProgress |-> 0]

Processed(p) == p.completed + p.failed + p.skipped

\* Progress.IsComplete
IsComplete(p) == Processed(p) >= p.total /\ p.inProgress = 0

\* Progress.UpdateRecentCompletion fills RecentCompletion and LastUpdate,
\* which are display data: the counters are left as they are
UpdateRecentCompletion(p, st) == p

\* a slip: a terminal transition that leaves InProgress as it is
DecInProgress_Kept(p) == p

\* a slip: the decrement without its guard
DecInProgress_Unfloored(p) == [p EXCEPT !.inProgress = @ - 1]

\* the shared first lines of every terminal transition
DecInProgress(p) ==
    IF p.inProgress > 0 THEN [p EXCEPT !.inProgress = @ - 1] ELSE p

StartJob(p) == [p EXCEPT !.inProgress = @ + 1]

\* a slip: Completed is set to one instead of being incremented
CompleteJob_Once(p) == [DecInProgress(p) EXCEPT !.completed = 1]

CompleteJob(p) == [DecInProgress(p) EXCEPT !.completed = @ + 1]

CompleteJobWithDetails(p) ==
    UpdateRecentCompletion([DecInProgress(p) EXCEPT !.completed = @ + 1],
                           JobStatusCompleted)

FailJob(p) == [DecInProgress(p) EXCEPT !.failed = @ + 1]

FailJobWithDetails(p) ==
    UpdateRecentCompletion([DecInProgress(p) EXCEPT !.failed = @ + 1],
                           JobStatusFailed)

SkipJob(p) == [DecInProgress(p) EXCEPT !.skipped = @ + 1]

SkipJobWithDetails(p) ==
    UpdateRecentCompletion([DecInProgress(p) EXCEPT !.skipped = @ + 1],
                           JobStatusSkipped)

\* a slip: the recovery recomputes Completed from Total instead of adding to it
ForceSynchronize_Recount(p) ==
    IF Processed(p) /= p.total
    THEN [p EXCEPT !.completed = p.total - p.failed - p.skipped,
                   !.inProgress = 0]
    ELSE p

\* a slip: every job in progress is turned into a completed one, whatever
\* is left up to Total
ForceSynchronize_All(p) ==
    IF Processed(p) < p.total /\ p.inProgress > 0
    THEN [p EXCEPT !.completed = @ + p.inProgress, !.inProgress = 0]
    ELSE p

ForceSynchronize(p) ==
    LET processed == Processed(p)
        q == IF processed < p.total /\ p.inProgress > 0
             THEN LET remaining == p.total - processed IN
                  IF remaining <= p.inProgress
                  THEN [p EXCEPT !.completed = @ + remaining,
                                 !.inProgress = @ - remaining]
                  ELSE [p EXCEPT !.completed = @ + p.inProgress,
                                 !.inProgress = 0]
             ELSE p
    IN  IF q.inProgress < 0 THEN [q EXCEPT !.inProgress = 0] ELSE q

\* GetProgress: a copy; CalculateETA touches only the copy's time fields
GetProgress(p) == p

\* ---------------------------------------------------- git errors (part_005)
PermanentErrors ==
    {"AuthenticationError", "RepositoryNotFoundError", "PermissionError",
     "DiskSpaceError", "PathTooLongError"}

\* a slip: RepositoryNotFoundError missing from the type switch
IsPermanentError_NotFoundRetried(err) ==
    err \in PermanentErrors \ {"RepositoryNotFoundError"}

IsPermanentError(err) == err \in PermanentErrors

\* ------------------------------------------------------------ git/client.go
\* What the lowercased output of a failed git process may contain.
Markers ==
    {"authentication failed", "repository not found", "permission denied",
     "network is unreachable", "connection timed out",
     "no space left on device", "filename too long"}

\* The outputs tried: a marker of a permanent failure, a marker of a
\* retryable one, and both at once.
GitOutputs ==
    {{"repository not found"}, {"connection timed out"},
     {"repository not found", "connection timed out"}}

parseGitError(output) ==
    IF "authentication failed" \in output THEN "AuthenticationError"
    ELSE IF "repository not found" \in output THEN "RepositoryNotFoundError"
    ELSE IF "permission denied" \in output THEN "PermissionError"
    ELSE IF "network is unreachable" \in output THEN "NetworkError"
    ELSE IF "connection timed out" \in output THEN "TimeoutError"
    ELSE IF "no space left on device" \in output THEN "DiskSpaceError"
    ELSE IF "filename too long" \in output THEN "PathTooLongError"
    ELSE "GitError"

\* GitClient.CloneRepository on job j: the (error, .git afterwards) pairs one
\* call can end with.  ValidateCloneJob comes first (it probes the file
\* system, so its verdict belongs to the call, not to the job); an existing
\* repository with SkipExisting is reported as RepositoryExistsError;
\* otherwise the destination is removed and the parent created, and git
\* runs: it succeeds or fails with classified output, and a git that failed
\* (killed when cloneCtx expires, say) may or may not have left .git behind.
\* The validation failure ("invalid clone job: ...") and the RemoveAll and
\* MkdirAll failures are plain fmt.Errorf errors.  In a base directory that
\* is read-only validateParentDirectory cannot create its probe file, so
\* every call ends in the validation failure.
CloneRepository(j) ==
    {[err |-> "PlainError", dest |-> destExists[j]]}
    \cup IF request.BaseDirectory = "readOnly"
         THEN {}
         ELSE IF destExists[j] /\ skipExisting
         THEN {[err |-> "RepositoryExistsError", dest |-> TRUE]}
         ELSE {[err |-> "nil", dest |-> TRUE]}
              \cup {[err |-> "PlainError", dest |-> FALSE]}
              \cup {[err |-> parseGitError(o), dest |-> d] :
                        o \in GitOutputs, d \in BOOLEAN}

\* --------------------------------------------------------- worker_pool.go
\* tasks the ants pool is running
Busy == {j \in Jobs : pc[j] \in {"start", "attempt", "cloning", "backoff", "emit"}}

\* cap(wp.results) = config.MaxWorkers*2
ResultsCap == maxWorkers * 2

\* a tracker call of the pool: every one is guarded by wp.progressTracker != nil
OnTracker(p) == IF poolTracker THEN p ELSE tracker

\* the terminal transitions one handler call makes on the tracker
Told == IF poolTracker THEN 1 ELSE 0

\* executeJob returns: its locals are gone and the deferred wg.Done() of
\* SubmitJob's closure runs
Return(j) ==
    /\ pc' = [pc EXCEPT ![j] = "done"]
    /\ attempt' = [attempt EXCEPT ![j] = 0]
    /\ lastErr' = [lastErr EXCEPT ![j] = "nil"]
    /\ result' = [result EXCEPT ![j] = NoResult]
    /\ cloneCalls' = [cloneCalls EXCEPT ![j] = 0]
    /\ timer' = [timer EXCEPT ![j] = 0]
    /\ wg' = wg - 1

\* job.Error keeps whether an error is set, not which one: nothing reads more
ErrorOf(err) == IF err = "nil" THEN "nil" ELSE "error"

\* a slip: the result is built and sent without the tracker being told
handleJobSuccess_TrackerLater(j) ==
    /\ status' = [status EXCEPT ![j] = JobStatusCompleted]
    /\ jobErr' = [jobErr EXCEPT ![j] = "nil"]
    /\ UNCHANGED <<tracker, termCalls>>
    /\ result' = [result EXCEPT ![j] = NewJobResult(j, TRUE)]
    /\ pc' = [pc EXCEPT ![j] = "emit"]

\* handleJobSuccess up to the send: MarkCompleted, CompleteJobWithDetails
handleJobSuccess(j) ==
    /\ status' = [status EXCEPT ![j] = JobStatusCompleted]
    /\ jobErr' = [jobErr EXCEPT ![j] = "nil"]
    /\ tracker' = OnTracker(CompleteJobWithDetails(tracker))
    /\ termCalls' = [termCalls EXCEPT ![j] = @ + Told]
    /\ result' = [result EXCEPT ![j] = NewJobResult(j, TRUE)]
    /\ pc' = [pc EXCEPT ![j] = "emit"]

\* a slip: a failure reported to the tracker as a completion
handleJobFailure_CountedCompleted(j, err) ==
    /\ status' = [status EXCEPT ![j] = JobStatusFailed]
    /\ jobErr' = [jobErr EXCEPT ![j] = ErrorOf(err)]
    /\ tracker' = OnTracker(CompleteJobWithDetails(tracker))
    /\ termCalls' = [termCalls EXCEPT ![j] = @ + Told]
    /\ result' = [result EXCEPT ![j] = NewJobResult(j, FALSE)]
    /\ pc' = [pc EXCEPT ![j] = "emit"]

\* handleJobFailure up to the send: MarkFailed(err), FailJobWithDetails
handleJobFailure(j, err) ==
    /\ status' = [status EXCEPT ![j] = JobStatusFailed]
    /\ jobErr' = [jobErr EXCEPT ![j] = ErrorOf(err)]
    /\ tracker' = OnTracker(FailJobWithDetails(tracker))
    /\ termCalls' = [termCalls EXCEPT ![j] = @ + Told]
    /\ result' = [result EXCEPT ![j] = NewJobResult(j, FALSE)]
    /\ pc' = [pc EXCEPT ![j] = "emit"]

\* a slip: an existing repository treated as a clone that completed
handleJobSkipped_AsCompleted(j) ==
    /\ status' = [status EXCEPT ![j] = JobStatusCompleted]
    /\ jobErr' = [jobErr EXCEPT ![j] = "nil"]
    /\ tracker' = OnTracker(CompleteJobWithDetails(tracker))
    /\ termCalls' = [termCalls EXCEPT ![j] = @ + Told]
    /\ result' = [result EXCEPT ![j] = NewJobResult(j, TRUE)]
    /\ pc' = [pc EXCEPT ![j] = "emit"]

\* handleJobSkipped up to the send: MarkSkipped(reason), SkipJobWithDetails
handleJobSkipped(j) ==
    /\ status' = [status EXCEPT ![j] = JobStatusSkipped]
    /\ jobErr' = [jobErr EXCEPT ![j] = "skipped"]
    /\ tracker' = OnTracker(SkipJobWithDetails(tracker))
    /\ termCalls' = [termCalls EXCEPT ![j] = @ + Told]
    /\ result' = [result EXCEPT ![j] = NewJobResult(j, TRUE)]
    /\ pc' = [pc EXCEPT ![j] = "emit"]

\* a slip: the cancelled job is dropped without being marked or reported
handleJobCancellation_Unmarked(j) ==
    /\ UNCHANGED <<status, jobErr, tracker, termCalls>>
    /\ Return(j)

\* a slip: no return after the cancellation handler, so the failure handler
\* below the loop runs as well
handleJobCancellation_FallsThrough(j) ==
    /\ status' = [status EXCEPT ![j] = JobStatusFailed]
    /\ jobErr' = [jobErr EXCEPT ![j] = ErrorOf(lastErr[j])]
    /\ tracker' = OnTracker(FailJobWithDetails(FailJob(tracker)))
    /\ termCalls' = [termCalls EXCEPT ![j] = @ + 2 * Told]
    /\ result' = [result EXCEPT ![j] = NewJobResult(j, FALSE)]
    /\ pc' = [pc EXCEPT ![j] = "emit"]
    /\ timer' = [timer EXCEPT ![j] = 0]
    /\ UNCHANGED <<attempt, lastErr, cloneCalls, wg>>

\* handleJobCancellation: MarkFailed("job cancelled"), FailJob; no result is
\* built or sent, executeJob returns and the deferred wg.Done runs
handleJobCancellation(j) ==
    /\ status' = [status EXCEPT ![j] = JobStatusFailed]
    /\ jobErr' = [jobErr EXCEPT ![j] = "job cancelled"]
    /\ tracker' = OnTracker(FailJob(tracker))
    /\ termCalls' = [termCalls EXCEPT ![j] = @ + Told]
    /\ Return(j)

\* executeJob, first lines: job.MarkStarted, tracker.StartJob
ExecuteJobStart(j) ==
    /\ pc[j] = "start"
    /\ status' = [status EXCEPT ![j] = JobStatusRunning]
    /\ tracker' = OnTracker(StartJob(tracker))
    /\ pc' = [pc EXCEPT ![j] = "attempt"]
    /\ UNCHANGED <<jobErr, attempt, lastErr, result, cloneCalls, termCalls,
                   sent, succeeded, timer>>
    /\ UNCHANGED <<envVars, destExists, poolTracker, results, resultsClosed, wg,
                   cancelled, poolClosed, callerCancelled, ucVars, trkVars>>

\* a slip: the loop head without its select on wp.ctx.Done()
ExecuteJobAttempt_NoCheck(j) ==
    /\ pc[j] = "attempt"
    /\ pc' = [pc EXCEPT ![j] = "cloning"]
    /\ cloneCalls' = [cloneCalls EXCEPT ![j] = @ + 1]
    /\ UNCHANGED <<status, jobErr, tracker, termCalls, result, wg, attempt,
                   lastErr, timer>>
    /\ UNCHANGED <<sent, succeeded>>
    /\ UNCHANGED <<envVars, destExists, poolTracker, results, resultsClosed,
                   cancelled, poolClosed, callerCancelled, ucVars, trkVars>>

\* the loop head: the select on wp.ctx.Done() with a default branch
ExecuteJobAttempt(j) ==
    /\ pc[j] = "attempt"
    /\ IF cancelled
       THEN handleJobCancellation(j)
       ELSE /\ pc' = [pc EXCEPT ![j] = "cloning"]
            /\ cloneCalls' = [cloneCalls EXCEPT ![j] = @ + 1]
            /\ UNCHANGED <<status, jobErr, tracker, termCalls, result, wg,
                           attempt, lastErr, timer>>
    /\ UNCHANGED <<sent, succeeded>>
    /\ UNCHANGED <<envVars, destExists, poolTracker, results, resultsClosed,
                   cancelled, poolClosed, callerCancelled, ucVars, trkVars>>

\* a slip: a delay that grows by wp.retryDelay with every attempt
BackoffDelay_Linear(a) == retryDelay * (a + 1)

\* retryDelay := wp.retryDelay * time.Duration(1<<attempt).  The product stays
\* below 2^63 ns in every run: a wait of 2^63 ns or more comes after a
\* completed wait of half its length.
BackoffDelay(a) == retryDelay * 2^a

\* CloneRepository returns; the rest of the loop body up to the next
\* blocking point
ExecuteJobCloned(j) ==
    /\ pc[j] = "cloning"
    /\ \E out \in CloneRepository(j) :
        /\ destExists' = [destExists EXCEPT ![j] = out.dest]
        /\ succeeded' = [succeeded EXCEPT ![j] = @ \/ out.err = "nil"]
        /\ IF out.err = "nil"
           THEN /\ handleJobSuccess(j)
                /\ UNCHANGED <<lastErr, attempt, timer>>
           ELSE /\ lastErr' = [lastErr EXCEPT ![j] = out.err]
                /\ IF IsPermanentError(out.err)
                   THEN /\ handleJobFailure(j, out.err)
                        /\ UNCHANGED <<attempt, timer>>
                   ELSE IF out.err = "RepositoryExistsError"
                   THEN /\ handleJobSkipped(j)
                        /\ UNCHANGED <<attempt, timer>>
                   ELSE IF attempt[j] < maxRetries
                   THEN /\ pc' = [pc EXCEPT ![j] = "backoff"]
                        /\ timer' = [timer EXCEPT
                                         ![j] = BackoffDelay(attempt[j])]
                        /\ UNCHANGED <<status, jobErr, tracker, termCalls,
                                       result, attempt>>
                   ELSE \* attempt++ ends the loop: all retries exhausted
                        /\ handleJobFailure(j, out.err)
                        /\ attempt' = [attempt EXCEPT ![j] = @ + 1]
                        /\ UNCHANGED timer
    /\ UNCHANGED <<cloneCalls, sent>>
    /\ UNCHANGED <<envVars, poolTracker, results, resultsClosed, wg, cancelled,
                   poolClosed, callerCancelled, ucVars, trkVars>>

\* the backoff select: time.After(retryDelay) fires
ExecuteJobRetry(j) ==
    /\ pc[j] = "backoff"
    /\ attempt' = [attempt EXCEPT ![j] = @ + 1]
    /\ pc' = [pc EXCEPT ![j] = "attempt"]
    /\ timer' = [timer EXCEPT ![j] = 0]
    /\ UNCHANGED <<status, jobErr, lastErr, result, cloneCalls, termCalls,
                   sent, succeeded>>
    /\ UNCHANGED <<envVars, destExists, tracker, poolTracker, results,
                   resultsClosed, wg, cancelled, poolClosed, callerCancelled,
                   ucVars, trkVars>>

\* the backoff select: wp.ctx.Done() is taken
ExecuteJobBackoffCancelled(j) ==
    /\ pc[j] = "backoff"
    /\ cancelled
    /\ handleJobCancellation(j)
    /\ UNCHANGED <<sent, succeeded>>
    /\ UNCHANGED <<envVars, destExists, poolTracker, results, resultsClosed,
                   cancelled, poolClosed, callerCancelled, ucVars, trkVars>>

\* the handlers' final select, first case: wp.results <- result
EmitResult(j) ==
    /\ pc[j] = "emit"
    /\ ~resultsClosed
    /\ Len(results) < ResultsCap
    /\ results' = Append(results, result[j])
    /\ sent' = [sent EXCEPT ![j] = @ + 1]
    /\ Return(j)
    /\ UNCHANGED <<status, jobErr, termCalls, succeeded>>
    /\ UNCHANGED <<envVars, destExists, tracker, poolTracker, resultsClosed,
                   cancelled, poolClosed, callerCancelled, ucVars, trkVars>>

\* the handlers' final select, second case: <-wp.ctx.Done(), the result is
\* dropped
EmitCancelled(j) ==
    /\ pc[j] = "emit"
    /\ cancelled
    /\ Return(j)
    /\ UNCHANGED <<status, jobErr, termCalls, sent, succeeded>>
    /\ UNCHANGED <<envVars, destExists, tracker, poolTracker, results,
                   resultsClosed, cancelled, poolClosed, callerCancelled,
                   ucVars, trkVars>>

\* Close / ForceClose, first step: wp.cancel()
Cancel ==
    /\ ~cancelled
    /\ cancelled' = TRUE
    /\ UNCHANGED <<jobVars, envVars, destExists, tracker, poolTracker, results,
                   resultsClosed, wg, poolClosed, callerCancelled, ucVars,
                   trkVars>>

\* Close / ForceClose, last step: wp.pool.Release().  Tasks already handed to
\* a worker run on; SubmitJob alone reads the released pool, so a release
\* after the last submission changes nothing and is left out.
Release ==
    /\ ucpc \in {"idle", "submit"}
    /\ cancelled
    /\ ~poolClosed
    /\ poolClosed' = TRUE
    /\ UNCHANGED <<jobVars, envVars, destExists, tracker, poolTracker, results,
                   resultsClosed, wg, cancelled, callerCancelled, ucVars,
                   trkVars>>

\* -------------------------------------------------- clone_repositories.go
\* the caller of Execute cancels its context; Execute reads it in
\* collectResults only, so an earlier cancellation is seen there
CallerCancel ==
    /\ ucpc = "collect"
    /\ ~callerCancelled
    /\ callerCancelled' = TRUE
    /\ UNCHANGED <<jobVars, envVars, destExists, tracker, poolTracker, results,
                   resultsClosed, wg, cancelled, poolClosed, ucVars, trkVars>>

\* A request: nil, or its fields.  Repositories is "empty", "valid" (the
\* NumJobs repositories of the batch), "hasNil" or "hasInvalid" (one that
\* fails Repository.Validate); BaseDirectory is "", "relative", or an absolute
\* path: "parentUnwritable" (no file can be created in its parent),
\* "readOnly" (an existing read-only directory in a writable parent) or
\* "writable"; Options is "nil", "valid" or "negativeDepth".
NilRequest ==
    [nil |-> TRUE, Repositories |-> "empty", BaseDirectory |-> "",
     Options |-> "nil", Concurrency |-> 0]

ValidRequest ==
    [nil |-> FALSE, Repositories |-> "valid", BaseDirectory |-> "writable",
     Options |-> "valid", Concurrency |-> 0]

\* the requests tried: the valid one and the ones that differ from it in one
\* field
Requests ==
    {NilRequest, ValidRequest}
    \cup {[ValidRequest EXCEPT !.Repositories = r] :
              r \in {"empty", "hasNil", "hasInvalid"}}
    \cup {[ValidRequest EXCEPT !.BaseDirectory = b] :
              b \in {"", "relative", "parentUnwritable", "readOnly"}}
    \cup {[ValidRequest EXCEPT !.Options = o] : o \in {"nil", "negativeDepth"}}
    \cup {[ValidRequest EXCEPT !.Concurrency = -1]}

\* DomainCloneService.ValidateDestination(path): the probe file
\* .ghclone_test is created in filepath.Dir(path), never in path itself
ValidateDestination(path) ==
    IF path = "" THEN "ErrInvalidDestination"
    ELSE IF path = "relative" THEN "ErrInvalidDestination"
    ELSE IF path = "parentUnwritable" THEN "ErrDestinationNotWritable"
    ELSE "nil"

validateRequest(req) ==
    IF req.nil THEN "request cannot be nil"
    ELSE IF req.Repositories = "empty" THEN "repositories list cannot be empty"
    ELSE IF req.BaseDirectory = "" THEN "base directory cannot be empty"
    ELSE IF ValidateDestination(req.BaseDirectory) /= "nil"
         THEN "invalid base directory"
    ELSE IF req.Concurrency < 0 THEN "concurrency cannot be negative"
    ELSE IF req.Repositories = "hasNil" THEN "repository is nil"
    ELSE IF req.Repositories = "hasInvalid" THEN "invalid repository"
    ELSE IF req.Options /= "nil" /\ req.Options = "negativeDepth"
         THEN "invalid clone options"
    ELSE "nil"

\* Execute on a request validateRequest refuses: return nil, "invalid
\* request: ..."
ExecuteReject ==
    /\ ucpc = "idle"
    /\ \E req \in Requests :
          /\ validateRequest(req) /= "nil"
          /\ request' = req
    /\ ucpc' = "rejected"
    /\ UNCHANGED <<nextSubmit, collectIdx, collected, response>>
    /\ UNCHANGED <<jobVars, poolEnv, destExists, tracker, poolTracker, results,
                   resultsClosed, wg, cancelled, poolClosed, callerCancelled,
                   trkVars>>

\* Execute up to SubmitJobs: validateRequest, "Set defaults" (nil Options
\* become NewDefaultCloneOptions, whose SkipExisting is true),
\* NewProgressTracker(len(validJobs)), SetProgressTracker
ExecuteBegin ==
    /\ ucpc = "idle"
    /\ \E req \in Requests :
          /\ validateRequest(req) = "nil"
          /\ req.Options = "nil" => skipExisting
          /\ request' = [req EXCEPT !.Options = "valid"]
    /\ tracker' = NewProgress(NumJobs)
    /\ poolTracker' = TRUE
    /\ ucpc' = "submit"
    /\ UNCHANGED <<nextSubmit, collectIdx, collected, response>>
    /\ UNCHANGED <<jobVars, poolEnv, destExists, results, resultsClosed, wg,
                   cancelled, poolClosed, callerCancelled, trkVars>>

\* a slip: a pool that starts a goroutine per task whatever its capacity
SubmitJob_Unbounded ==
    /\ ucpc = "submit"
    /\ ~poolClosed
    /\ wg' = wg + 1
    /\ pc' = [pc EXCEPT ![nextSubmit] = "start"]
    /\ nextSubmit' = nextSubmit + 1
    /\ ucpc' = IF nextSubmit = NumJobs THEN "collect" ELSE "submit"
    /\ UNCHANGED <<collectIdx, collected, response>>
    /\ UNCHANGED <<status, jobErr, attempt, lastErr, result, cloneCalls,
                   termCalls, sent, succeeded, timer>>
    /\ UNCHANGED <<envVars, destExists, tracker, poolTracker, results,
                   resultsClosed, cancelled, poolClosed, callerCancelled,
                   trkVars>>

\* SubmitJobs, one iteration: SubmitJob(job) hands the task to a free worker
\* (ants' Submit blocks while all maxWorkers are busy)
SubmitJob ==
    /\ ucpc = "submit"
    /\ ~poolClosed
    /\ Cardinality(Busy) < maxWorkers
    /\ wg' = wg + 1
    /\ pc' = [pc EXCEPT ![nextSubmit] = "start"]
    /\ nextSubmit' = nextSubmit + 1
    /\ ucpc' = IF nextSubmit = NumJobs THEN "collect" ELSE "submit"
    /\ UNCHANGED <<collectIdx, collected, response>>
    /\ UNCHANGED <<status, jobErr, attempt, lastErr, result, cloneCalls,
                   termCalls, sent, succeeded, timer>>
    /\ UNCHANGED <<envVars, destExists, tracker, poolTracker, results,
                   resultsClosed, cancelled, poolClosed, callerCancelled,
                   trkVars>>

\* SubmitJob on a released pool: IsClosed is seen (no wg.Add), or the pool is
\* released after the check and Submit fails (wg.Add(1) stays); SubmitJobs
\* and Execute return the error
SubmitJobClosed ==
    /\ ucpc = "submit"
    /\ poolClosed
    /\ \E added \in {0, 1} : wg' = wg + added
    /\ ucpc' = "error"
    /\ UNCHANGED <<nextSubmit, collectIdx, collected, response>>
    /\ UNCHANGED <<jobVars, envVars, destExists, tracker, poolTracker, results,
                   resultsClosed, cancelled, poolClosed, callerCancelled,
                   trkVars>>

\* collectResults, one iteration of the select: a result is received
CollectResult ==
    /\ ucpc = "collect"
    /\ collectIdx < NumJobs
    /\ Len(results) > 0
    /\ collected' = collected \cup {Head(results)}
    /\ results' = Tail(results)
    /\ collectIdx' = collectIdx + 1
    /\ UNCHANGED <<ucpc, nextSubmit, response>>
    /\ UNCHANGED <<jobVars, envVars, destExists, tracker, poolTracker,
                   resultsClosed, wg, cancelled, poolClosed, callerCancelled,
                   trkVars>>

\* collectResults returns: the loop is over, or ctx.Done() is taken
CollectReturn ==
    /\ ucpc = "collect"
    /\ collectIdx = NumJobs \/ callerCancelled
    /\ ucpc' = "wait"
    /\ UNCHANGED <<nextSubmit, collectIdx, collected, response>>
    /\ UNCHANGED <<jobVars, envVars, destExists, tracker, poolTracker, results,
                   resultsClosed, wg, cancelled, poolClosed, callerCancelled,
                   trkVars>>

\* WorkerPool.Wait: wg.Wait(), close(wp.results)
Wait ==
    /\ ucpc = "wait"
    /\ wg = 0
    /\ resultsClosed' = TRUE
    /\ ucpc' = "final"
    /\ UNCHANGED <<nextSubmit, collectIdx, collected, response>>
    /\ UNCHANGED <<jobVars, envVars, destExists, tracker, poolTracker, results,
                   wg, cancelled, poolClosed, callerCancelled, trkVars>>

\* the loop "for finalProgress.InProgress > 0 { CompleteJob() }"
RECURSIVE ForceRemaining(_)
ForceRemaining(p) ==
    IF p.inProgress > 0 THEN ForceRemaining(CompleteJob(p)) ELSE p

\* Execute after Wait: the tracker as the defect recovery leaves it
Finalized(p) ==
    IF ~IsComplete(GetProgress(p))
    THEN ForceRemaining(ForceSynchronize(p))
    ELSE p

\* Execute after Wait, to its return
ExecuteFinish ==
    /\ ucpc = "final"
    /\ tracker' = Finalized(tracker)
    /\ poolTracker' = FALSE
    /\ response' = [TotalJobs |-> NumJobs,
                    CompletedJobs |-> tracker'.completed,
                    FailedJobs |-> tracker'.failed,
                    SkippedJobs |-> tracker'.skipped,
                    Results |-> collected,
                    Progress |-> GetProgress(tracker')]
    /\ ucpc' = "done"
    /\ UNCHANGED <<nextSubmit, collectIdx, collected>>
    /\ UNCHANGED <<jobVars, envVars, destExists, results, resultsClosed, wg,
                   cancelled, poolClosed, callerCancelled, trkVars>>

\* ------------------------------------------------------------ the batch
NoResponse == [TotalJobs |-> 0, CompletedJobs |-> 0, FailedJobs |-> 0,
               SkippedJobs |-> 0, Results |-> {},
               Progress |-> NewProgress(0)]

\* no CloneJob is being driven on its own
JobIdle == prevStatus = JobStatusPending

\* no limiter is being driven
LimiterIdle ==
    /\ now = 0
    /\ rl = [limit |-> 0, tokens |-> 0, lastRefill |-> 0, resetTime |-> 0]
    /\ mu = "free"
    /\ lpc = "idle"
    /\ ctxDone = FALSE
    /\ deadline = 0
    /\ ret = "none"
    /\ consumed = 0
    /\ winStart = 0
    /\ winCount = 0
    /\ hinted = FALSE

\* req.Filter == nil
NilFilter == [nil |-> TRUE]

\* no fetch is being run
NoFetched == [repos |-> <<>>, err |-> "nil"]
NoFetchResponse ==
    [Repositories |-> <<>>, TotalCount |-> 0, FilteredOut |-> 0, err |-> "nil"]

FetchIdle ==
    /\ catalogue = <<>>
    /\ freq = [Type |-> "github", Filter |-> NilFilter, PerPage |-> 1]
    /\ fpc = "idle"
    /\ page = 0
    /\ repos = <<>>
    /\ fctxDone = FALSE
    /\ pagesAsked = <<>>
    /\ pageLens = <<>>
    /\ fetched = NoFetched
    /\ fresp = NoFetchResponse

\* no subscriber is being served
NoCalls == [completed |-> 0, failed |-> 0, skipped |-> 0]

SubscriptionIdle ==
    /\ updates = <<>>
    /\ received = NewProgress(0)
    /\ todo = 0
    /\ busy = 0
    /\ calls = NoCalls
    /\ spc = "idle"

\* no flow is being followed
FlowIdle == stage = <<>>

\* no job was created
NoIds == [clock |-> 0, ids |-> <<>>, activeJobs |-> {}]
IdIdle == idgen = NoIds

\* no batch is followed for its destinations
NoDest == [repos |-> <<>>, orgDirs |-> FALSE, at |-> <<>>]
DestIdle == dst = NoDest

\* no pool is followed over several runs
NoReuse ==
    [run |-> 0, upc |-> "done", n |-> 0, left |-> 0, got |-> 0, running |-> 0,
     buffered |-> 0, wgc |-> 0, closed |-> FALSE, closes |-> 0,
     cancel |-> FALSE, panic |-> "none"]
ReuseIdle == rp = NoReuse

\* no tracker is followed through its Close
NoClose ==
    [progress |-> NewProgress(0), ops |-> 0, buffered |-> 0,
     doneClosed |-> FALSE, updatesClosed |-> FALSE, saw |-> "nothing",
     panic |-> "none", late |-> FALSE]
CloseIdle == ptc = NoClose

\* no CloningService was built
NoService == [active |-> {}, cancelled |-> {}]
ServiceIdle == svc = NoService

\* no Job Manager was built
NoManager ==
    [high |-> <<>>, normal |-> <<>>, pc |-> "none", job |-> -1,
     highJob |-> -1, handed |-> <<>>, accepted |-> {}, dropped |-> {},
     nextId |-> 1, done |-> FALSE, taken |-> 0]
ManagerIdle == jm = NoManager

\* the retry policy of the pool the use case builds: config.MaxRetries
\* retries, the first after one unit of wp.retryDelay
RetryPolicy ==
    /\ maxRetries = MaxRetries
    /\ retryDelay = 1

InitCommon ==
    /\ status = [j \in Jobs |-> JobStatusPending]
    /\ jobErr = [j \in Jobs |-> "nil"]
    /\ pc = [j \in Jobs |-> "new"]
    /\ attempt = [j \in Jobs |-> 0]
    /\ lastErr = [j \in Jobs |-> "nil"]
    /\ result = [j \in Jobs |-> NoResult]
    /\ poolTracker = FALSE
    /\ results = <<>>
    /\ resultsClosed = FALSE
    /\ wg = 0
    /\ cancelled = FALSE
    /\ poolClosed = FALSE
    /\ callerCancelled = FALSE
    /\ ucpc = "idle"
    /\ nextSubmit = 1
    /\ collectIdx = 0
    /\ collected = {}
    /\ response = NoResponse
    /\ snapshot = NewProgress(0)
    /\ ops = 0
    /\ lastOp = "none"
    /\ succeeded = [j \in Jobs |-> FALSE]
    /\ cloneCalls = [j \in Jobs |-> 0]
    /\ termCalls = [j \in Jobs |-> 0]
    /\ sent = [j \in Jobs |-> 0]
    /\ retryCount = [j \in Jobs |-> 0]
    /\ request = NilRequest
    /\ timer = [j \in Jobs |-> 0]

\* A batch about to be executed on a fresh pool.
Init ==
    /\ InitCommon
    /\ RetryPolicy
    /\ maxWorkers \in 1..MaxWorkers
    /\ skipExisting \in BOOLEAN
    /\ destExists \in [Jobs -> BOOLEAN]
    /\ tracker = NewProgress(0)
    /\ JobIdle
    /\ LimiterIdle
    /\ FetchIdle
    /\ SubscriptionIdle
    /\ FlowIdle
    /\ ServiceIdle
    /\ CloseIdle
    /\ ReuseIdle
    /\ DestIdle
    /\ IdIdle
    /\ ManagerIdle

Worker(j) ==
    \/ ExecuteJobStart(j)
    \/ ExecuteJobAttempt(j)
    \/ ExecuteJobCloned(j)
    \/ ExecuteJobRetry(j)
    \/ ExecuteJobBackoffCancelled(j)
    \/ EmitResult(j)
    \/ EmitCancelled(j)

Next ==
    \/ \E j \in Jobs : Worker(j)
    \/ Cancel
    \/ Release
    \/ CallerCancel
    \/ ExecuteReject
    \/ ExecuteBegin
    \/ SubmitJob
    \/ SubmitJobClosed
    \/ CollectResult
    \/ CollectReturn
    \/ Wait
    \/ ExecuteFinish

Spec == Init /\ [][Next]_vars

\* The same batch with the scheduling the workers can count on: a goroutine
\* that can take its next step takes it, a clone attempt returns and a
\* backoff timer fires.  Sending a result is left out: it waits for room in
\* wp.results, which is the consumer's doing.
Running(j) ==
    \/ ExecuteJobStart(j)
    \/ ExecuteJobAttempt(j)
    \/ ExecuteJobCloned(j)
    \/ ExecuteJobRetry(j)

FairSpec == Init /\ [][Next]_vars /\ \A j \in Jobs : WF_vars(Running(j))

\* ------------------------------------------------- the tracker on its own
\* Any caller applying any operation of ProgressTracker, in any order.
Apply(name, p) ==
    /\ ops < MaxOps
    /\ tracker' = p
    /\ ops' = ops + 1
    /\ lastOp' = name
    /\ UNCHANGED snapshot
    /\ UNCHANGED <<jobVars, envVars, destExists, poolTracker, results,
                   resultsClosed, wg, cancelled, poolClosed, callerCancelled,
                   ucVars>>

TrackerStartJob == Apply("StartJob", StartJob(tracker))
TrackerCompleteJob == Apply("CompleteJob", CompleteJob(tracker))
TrackerCompleteJobWithDetails ==
    Apply("CompleteJobWithDetails", CompleteJobWithDetails(tracker))
TrackerFailJob == Apply("FailJob", FailJob(tracker))
TrackerFailJobWithDetails ==
    Apply("FailJobWithDetails", FailJobWithDetails(tracker))
TrackerSkipJob == Apply("SkipJob", SkipJob(tracker))
TrackerSkipJobWithDetails ==
    Apply("SkipJobWithDetails", SkipJobWithDetails(tracker))
TrackerForceSynchronize ==
    Apply("ForceSynchronize", ForceSynchronize(tracker))

TrackerGetProgress ==
    /\ snapshot' = GetProgress(tracker)
    /\ lastOp' = "GetProgress"
    /\ UNCHANGED <<tracker, ops>>
    /\ UNCHANGED <<jobVars, envVars, destExists, poolTracker, results,
                   resultsClosed, wg, cancelled, poolClosed, callerCancelled,
                   ucVars>>

TrackerInit ==
    /\ InitCommon
    /\ RetryPolicy
    /\ maxWorkers = 1
    /\ skipExisting = FALSE
    /\ destExists = [j \in Jobs |-> FALSE]
    /\ tracker \in {NewProgress(t) : t \in 0..MaxTotal}
    /\ JobIdle
    /\ LimiterIdle
    /\ FetchIdle
    /\ SubscriptionIdle
    /\ FlowIdle
    /\ ServiceIdle
    /\ CloseIdle
    /\ ReuseIdle
    /\ DestIdle
    /\ IdIdle
    /\ ManagerIdle

TrackerNext ==
    \/ TrackerStartJob
    \/ TrackerCompleteJob
    \/ TrackerCompleteJobWithDetails
    \/ TrackerFailJob
    \/ TrackerFailJobWithDetails
    \/ TrackerSkipJob
    \/ TrackerSkipJobWithDetails
    \/ TrackerForceSynchronize
    \/ TrackerGetProgress

TrackerSpec == TrackerInit /\ [][TrackerNext]_vars

\* ------------------------------------------------ a CloneJob on its own
\* Any caller applying any operation of CloneJob (job 1), in any order.
\* NewCloneJob: MaxRetries: 3
JobMaxRetries == 3

\* what a batch holds and a job's own methods never touch
batchRest ==
    <<pc, attempt, lastErr, result, cloneCalls, termCalls, sent, succeeded,
      timer, maxRetries, retryDelay, maxWorkers, skipExisting, request, destExists, tracker, poolTracker,
      results, resultsClosed, wg, cancelled, poolClosed, callerCancelled,
      ucVars, snapshot, ops, sideVars>>

\* a slip: <= for <
CanRetry_Inclusive(j) ==
    retryCount[j] <= JobMaxRetries /\ status[j] = JobStatusFailed

CanRetry(j) ==
    retryCount[j] < JobMaxRetries /\ status[j] = JobStatusFailed

JobApply(name, st, err, rc) ==
    /\ prevStatus' = status[1]
    /\ status' = [status EXCEPT ![1] = st]
    /\ jobErr' = [jobErr EXCEPT ![1] = err]
    /\ retryCount' = [retryCount EXCEPT ![1] = rc]
    /\ lastOp' = name
    /\ UNCHANGED batchRest

JobMarkStarted ==
    JobApply("MarkStarted", JobStatusRunning, jobErr[1], retryCount[1])

JobMarkCompleted ==
    JobApply("MarkCompleted", JobStatusCompleted, "nil", retryCount[1])

JobMarkFailed ==
    \E err \in {"nil", "error"} :
        JobApply("MarkFailed", JobStatusFailed, err, retryCount[1])

JobMarkSkipped ==
    JobApply("MarkSkipped", JobStatusSkipped, "skipped", retryCount[1])

JobRetry ==
    IF CanRetry(1)
    THEN JobApply("Retry", JobStatusPending, "nil", retryCount[1] + 1)
    ELSE JobApply("Retry", status[1], jobErr[1], retryCount[1])

JobInit ==
    /\ InitCommon
    /\ RetryPolicy
    /\ maxWorkers = 1
    /\ skipExisting = FALSE
    /\ destExists = [j \in Jobs |-> FALSE]
    /\ tracker = NewProgress(0)
    /\ JobIdle
    /\ LimiterIdle
    /\ FetchIdle
    /\ SubscriptionIdle
    /\ FlowIdle
    /\ ServiceIdle
    /\ CloseIdle
    /\ ReuseIdle
    /\ DestIdle
    /\ IdIdle
    /\ ManagerIdle

JobNext ==
    \/ JobMarkStarted
    \/ JobMarkCompleted
    \/ JobMarkFailed
    \/ JobMarkSkipped
    \/ JobRetry

JobSpec == JobInit /\ [][JobNext]_vars

\* --------------------------------------- the rate limiter on its own
\* Callers of one TokenBucketRateLimiter, and the clock.  Time is counted in
\* clock ticks, TicksPerHour of them to the hour; r.tokens is counted in
\* units of 1/TicksPerHour token, so that the refill of one tick
\* (refillRate = limit per hour) is limit units and the arithmetic is exact.
Callers == {"c1", "c2"}

\* one token, in units
OneToken == TicksPerHour

\* a time no run reaches
Forever == MaxTime + 1

Min(a, b) == IF a < b THEN a ELSE b

NewTokenBucketRateLimiter(limit) ==
    [limit |-> limit, tokens |-> limit * OneToken, lastRefill |-> 0,
     resetTime |-> TicksPerHour]

refillTokens(r, t) ==
    IF t > r.resetTime
    THEN [r EXCEPT !.tokens = r.limit * OneToken, !.lastRefill = t,
                   !.resetTime = t + TicksPerHour]
    ELSE [r EXCEPT !.tokens = Min(r.tokens + (t - r.lastRefill) * r.limit,
                                  r.limit * OneToken),
                   !.lastRefill = t]

\* time.Duration((1.0 - r.tokens) / r.refillRate * float64(time.Second)): the
\* conversion truncates.  With refillRate 0 the quotient is +Inf, whose
\* conversion is implementation-defined: the most negative duration (the
\* timer fires at once) or the largest one.
waitTimes(r) ==
    IF r.limit = 0
    THEN {0, Forever}
    ELSE {(OneToken - r.tokens) \div r.limit}

\* the caller's call ends: r.mu is released by the deferred Unlock
LimiterReturn(c, r, value, took) ==
    /\ rl' = r
    /\ mu' = "free"
    /\ lpc' = [lpc EXCEPT ![c] = "idle"]
    /\ ret' = [ret EXCEPT ![c] = value]
    /\ consumed' = [consumed EXCEPT ![c] = took]
    /\ deadline' = 0
    /\ winCount' = IF value = "nil" /\ now >= winStart
                       /\ now < winStart + TicksPerHour
                    THEN Min(winCount + 1, r.limit + 1) ELSE winCount

limiterRest ==
    <<jobVars, retryCount, request, maxRetries, retryDelay, maxWorkers,
      skipExisting, destExists,
      tracker, poolTracker, results, resultsClosed, wg, cancelled, poolClosed,
      callerCancelled, ucVars, trkVars, jobAloneVars, fetchVars, subVars,
      stage, lateVars>>

\* a caller calls Wait(ctx) and reaches r.mu.Lock()
WaitCall(c) ==
    /\ lpc[c] = "idle"
    /\ lpc' = [lpc EXCEPT ![c] = "wait.lock"]
    /\ ret' = [ret EXCEPT ![c] = "none"]
    /\ consumed' = [consumed EXCEPT ![c] = 0]
    /\ ctxDone' = [ctxDone EXCEPT ![c] = FALSE]
    /\ UNCHANGED <<now, rl, mu, deadline, winStart, winCount, hinted>>
    /\ UNCHANGED limiterRest

\* Wait from r.mu.Lock() to its first return or to the select
WaitEnter(c) ==
    /\ lpc[c] = "wait.lock"
    /\ mu = "free"
    /\ LET r == refillTokens(rl, now)
       IN  IF r.tokens >= OneToken
           THEN LimiterReturn(c, [r EXCEPT !.tokens = @ - OneToken], "nil",
                              OneToken)
           ELSE /\ rl' = r
                /\ mu' = c
                /\ lpc' = [lpc EXCEPT ![c] = "wait.sleep"]
                /\ \E w \in waitTimes(r) :
                      deadline' = Min(now + w, Forever)
                /\ UNCHANGED <<ret, consumed, winCount>>
    /\ UNCHANGED <<now, ctxDone, winStart, hinted>>
    /\ UNCHANGED limiterRest

\* the select, case <-timer.C
WaitTimer(c) ==
    /\ lpc[c] = "wait.sleep"
    /\ now >= deadline
    /\ LET r == refillTokens(rl, now)
       IN  IF r.tokens >= OneToken
           THEN LimiterReturn(c, [r EXCEPT !.tokens = @ - OneToken], "nil",
                              OneToken)
           ELSE LimiterReturn(c, r, "rate limit exceeded", 0)
    /\ UNCHANGED <<now, ctxDone, winStart, hinted>>
    /\ UNCHANGED limiterRest

\* the select, case <-ctx.Done()
WaitCancelled(c) ==
    /\ lpc[c] = "wait.sleep"
    /\ ctxDone[c]
    /\ LimiterReturn(c, rl, "ctx.Err", 0)
    /\ UNCHANGED <<now, ctxDone, winStart, hinted>>
    /\ UNCHANGED limiterRest

\* the caller's cancel signal fires
CancelCtx(c) ==
    /\ lpc[c] \in {"wait.lock", "wait.sleep"}
    /\ ~ctxDone[c]
    /\ ctxDone' = [ctxDone EXCEPT ![c] = TRUE]
    /\ UNCHANGED <<now, rl, mu, lpc, deadline, ret, consumed, winStart,
                   winCount, hinted>>
    /\ UNCHANGED limiterRest

\* a caller calls Allow() and reaches r.mu.Lock()
AllowCall(c) ==
    /\ lpc[c] = "idle"
    /\ lpc' = [lpc EXCEPT ![c] = "allow.lock"]
    /\ ret' = [ret EXCEPT ![c] = "none"]
    /\ consumed' = [consumed EXCEPT ![c] = 0]
    /\ UNCHANGED <<now, rl, mu, ctxDone, deadline, winStart, winCount, hinted>>
    /\ UNCHANGED limiterRest

\* Allow from r.mu.Lock() to its return
AllowEnter(c) ==
    /\ lpc[c] = "allow.lock"
    /\ mu = "free"
    /\ LET r == refillTokens(rl, now)
       IN  IF r.tokens >= OneToken
           THEN LimiterReturn(c, [r EXCEPT !.tokens = @ - OneToken], "true",
                              OneToken)
           ELSE LimiterReturn(c, r, "false", 0)
    /\ UNCHANGED <<now, ctxDone, winStart, hinted>>
    /\ UNCHANGED limiterRest

\* UpdateRemaining(remaining), the whole call; int(r.tokens) truncates.  The
\* clients pass what strconv.Atoi made of the X-RateLimit-Remaining header,
\* a negative number included.
UpdateRemaining ==
    /\ mu = "free"
    /\ \E remaining \in -1..MaxLimit :
          rl' = IF remaining < rl.tokens \div OneToken
                THEN [rl EXCEPT !.tokens = remaining * OneToken]
                ELSE rl
    /\ hinted' = TRUE
    /\ UNCHANGED <<now, mu, lpc, ctxDone, deadline, ret, consumed, winStart,
                   winCount>>
    /\ UNCHANGED limiterRest

\* UpdateResetTime(resetTime), the whole call; the instants tried are one
\* that has passed (once the clock has moved) and the next tick
UpdateResetTime ==
    /\ mu = "free"
    /\ \E resetTime \in {0, now + 1} :
          rl' = IF now > resetTime
                THEN [rl EXCEPT !.resetTime = resetTime,
                                !.tokens = rl.limit * OneToken,
                                !.lastRefill = now]
                ELSE [rl EXCEPT !.resetTime = resetTime]
    /\ hinted' = TRUE
    /\ UNCHANGED <<now, mu, lpc, ctxDone, deadline, ret, consumed, winStart,
                   winCount>>
    /\ UNCHANGED limiterRest

\* the clock advances
Tick ==
    /\ now < MaxTime
    /\ now' = now + 1
    /\ UNCHANGED <<rl, mu, lpc, ctxDone, deadline, ret, consumed, winStart,
                   winCount, hinted>>
    /\ UNCHANGED limiterRest

LimiterInit ==
    /\ InitCommon
    /\ RetryPolicy
    /\ maxWorkers = 1
    /\ skipExisting = FALSE
    /\ destExists = [j \in Jobs |-> FALSE]
    /\ tracker = NewProgress(0)
    /\ JobIdle
    /\ FetchIdle
    /\ SubscriptionIdle
    /\ FlowIdle
    /\ ServiceIdle
    /\ CloseIdle
    /\ ReuseIdle
    /\ DestIdle
    /\ IdIdle
    /\ ManagerIdle
    /\ now = 0
    /\ rl \in {NewTokenBucketRateLimiter(limit) : limit \in 0..MaxLimit}
    /\ mu = "free"
    /\ lpc = [c \in Callers |-> "idle"]
    /\ ctxDone = [c \in Callers |-> FALSE]
    /\ deadline = 0
    /\ ret = [c \in Callers |-> "none"]
    /\ consumed = [c \in Callers |-> 0]
    /\ winStart \in 0..(MaxTime - TicksPerHour)
    /\ winCount = 0
    /\ hinted = FALSE

LimiterNext ==
    \/ \E c \in Callers :
          \/ WaitCall(c)
          \/ WaitEnter(c)
          \/ WaitTimer(c)
          \/ WaitCancelled(c)
          \/ CancelCtx(c)
          \/ AllowCall(c)
          \/ AllowEnter(c)
    \/ UpdateRemaining
    \/ UpdateResetTime
    \/ Tick

LimiterSpec == LimiterInit /\ [][LimiterNext]_vars

\* ------------------------------------------- enumeration on its own
\* FetchRepositoriesUseCase.Execute against a provider that serves the
\* owner's repositories, catalogue, page by page.
\*
\* What a provider reports of a repository.  Times: 0 is the zero time, 1 a
\* time before the fetch, 2 the time of the fetch, 3 a later one.
ApiRepo(cloneURL, fork, size, language) ==
    [CloneURL |-> cloneURL, Fork |-> fork, Size |-> size,
     Language |-> language, UpdatedAt |-> 1]

\* the repositories tried: a plain one, a fork, a larger one, one with an
\* ssh clone URL and one without a clone URL
ApiRepos ==
    {ApiRepo("https", FALSE, 1, "go"), ApiRepo("https", TRUE, 1, "go"),
     ApiRepo("https", FALSE, 2, "go"), ApiRepo("ssh", FALSE, 1, "go"),
     ApiRepo("", FALSE, 1, "go")}

RECURSIVE SeqsUpTo(_, _)
SeqsUpTo(S, n) ==
    IF n = 0 THEN {<<>>}
    ELSE LET shorter == SeqsUpTo(S, n - 1)
         IN  shorter \cup {Append(q, x) : q \in shorter, x \in S}

NewRepositoryFilter ==
    [IncludeForks |-> FALSE, MinSize |-> 0, MaxSize |-> -1, Languages |-> {},
     UpdatedAfter |-> 0, OnlyPublic |-> TRUE]

\* the filters tried besides the default: one that lets everything through,
\* and it with a size window, a language, a time before the fetch and a time
\* after it
AnyFilter ==
    [IncludeForks |-> TRUE, MinSize |-> 0, MaxSize |-> -1, Languages |-> {},
     UpdatedAfter |-> 0, OnlyPublic |-> FALSE]

Filters ==
    {NewRepositoryFilter, AnyFilter,
     [AnyFilter EXCEPT !.MinSize = 1, !.MaxSize = 1],
     [AnyFilter EXCEPT !.Languages = {"go"}],
     [AnyFilter EXCEPT !.UpdatedAfter = 1],
     [AnyFilter EXCEPT !.UpdatedAfter = 3]}

\* Repository.IsPublic
IsPublic(repo) == repo.CloneURL = "https"

\* a slip: the fork check left out
ShouldInclude_ForksPass(rf, repo) ==
    IF repo.Size < rf.MinSize THEN FALSE
    ELSE IF rf.MaxSize >= 0 /\ repo.Size > rf.MaxSize THEN FALSE
    ELSE IF rf.Languages /= {} /\ repo.Language \notin rf.Languages THEN FALSE
    ELSE IF rf.UpdatedAfter /= 0 /\ repo.UpdatedAt < rf.UpdatedAfter THEN FALSE
    ELSE IF rf.OnlyPublic /\ ~IsPublic(repo) THEN FALSE
    ELSE TRUE

ShouldInclude(rf, repo) ==
    IF ~rf.IncludeForks /\ repo.IsFork THEN FALSE
    ELSE IF repo.Size < rf.MinSize THEN FALSE
    ELSE IF rf.MaxSize >= 0 /\ repo.Size > rf.MaxSize THEN FALSE
    ELSE IF rf.Languages /= {} /\ repo.Language \notin rf.Languages THEN FALSE
    ELSE IF rf.UpdatedAfter /= 0 /\ repo.UpdatedAt < rf.UpdatedAfter THEN FALSE
    ELSE IF rf.OnlyPublic /\ ~IsPublic(repo) THEN FALSE
    ELSE TRUE

\* Repository.Validate, of what a provider reports: the clone URL has scheme
\* https or ssh, the size is not negative
Validate(api) == api.CloneURL \in {"https", "ssh"} /\ api.Size >= 0

\* convertToDomainRepository on an item that validates: NewRepository is
\* given id, name, clone URL, owner, fork flag, size and default branch;
\* Language stays empty and UpdatedAt is time.Now()
convertToDomainRepository(api) ==
    [CloneURL |-> api.CloneURL, IsFork |-> api.Fork, Size |-> api.Size,
     Language |-> "", UpdatedAt |-> 2]

\* the items of one page, as the provider cuts them
PageItems(p, perPage) ==
    SubSeq(catalogue, (p - 1) * perPage + 1,
           Min(p * perPage, Len(catalogue)))

\* fetchRepositoryPage's repos: the items that convert
RECURSIVE Converted(_)
Converted(items) ==
    IF items = <<>> THEN <<>>
    ELSE IF Validate(Head(items))
         THEN <<convertToDomainRepository(Head(items))>>
              \o Converted(Tail(items))
         ELSE Converted(Tail(items))

RECURSIVE Included(_, _)
Included(rf, rs) ==
    IF rs = <<>> THEN <<>>
    ELSE IF ShouldInclude(rf, Head(rs))
         THEN <<Head(rs)>> \o Included(rf, Tail(rs))
         ELSE Included(rf, Tail(rs))

\* a slip: another page as long as the last one was not empty
hasMore_NonEmpty(n, perPage) == n > 0

\* GitHub: hasMore := len(apiRepos) == perPage
hasMore(n, perPage) == n = perPage

\* the "next" of the Bitbucket response for page p: the number of the page it
\* links to, 0 for an empty next (the last page of the catalogue has none)
PageNext(p, perPage) == IF p * perPage < Len(catalogue) THEN p + 1 ELSE 0

\* a slip: Bitbucket paged by GitHub's rule, a full page means another one
hasNext_FullPage(p, perPage) == Len(PageItems(p, perPage)) = perPage

\* Bitbucket: hasNext := pageResp.Next != ""
hasNext(p, perPage) == PageNext(p, perPage) /= 0

fetchRest ==
    <<jobVars, retryCount, request, maxRetries, retryDelay, maxWorkers,
      skipExisting, destExists,
      tracker, poolTracker, results, resultsClosed, wg, cancelled, poolClosed,
      callerCancelled, ucVars, trkVars, jobAloneVars, rlVars, subVars,
      stage, lateVars>>

\* Execute after FetchRepositories has returned rs, err
ExecuteReturn(rs, err) ==
    /\ fetched' = [repos |-> rs, err |-> err]
    /\ fresp' =
          IF err /= "nil"
          THEN [NoFetchResponse EXCEPT !.err = "failed to fetch repositories"]
          ELSE LET kept == Included(freq.Filter, rs)
               IN  [Repositories |-> kept, TotalCount |-> Len(rs),
                    FilteredOut |-> Len(rs) - Len(kept), err |-> "nil"]
    /\ fpc' = "done"

\* Execute up to the first page request: "Set defaults", and the client's
\* page := 1 (Bitbucket: pagination.Page, which is 1)
FetchExecute ==
    /\ fpc = "idle"
    /\ freq' = IF freq.Filter = NilFilter
               THEN [freq EXCEPT !.Filter = NewRepositoryFilter]
               ELSE freq
    /\ page' = 1
    /\ fpc' = "loop"
    /\ UNCHANGED <<catalogue, repos, fctxDone, pagesAsked, pageLens, fetched,
                   fresp>>
    /\ UNCHANGED fetchRest

\* one turn of the loop whose page request succeeds
FetchPageOK ==
    /\ fpc = "loop"
    /\ LET items == PageItems(page, freq.PerPage)
           all == repos \o Included(freq.Filter, Converted(items))
           more == IF freq.Type = "github"
                   THEN hasMore(Len(items), freq.PerPage)
                   ELSE hasNext(page, freq.PerPage)
       IN  /\ pagesAsked' = Append(pagesAsked, page)
           /\ pageLens' = Append(pageLens, Len(items))
           /\ repos' = all
           /\ IF ~more
              THEN /\ ExecuteReturn(all, "nil")
                   /\ UNCHANGED page
              ELSE /\ page' = page + 1
                   /\ IF freq.Type = "github" /\ fctxDone
                      THEN ExecuteReturn(all, "ctx.Err")
                      ELSE UNCHANGED <<fpc, fetched, fresp>>
    /\ UNCHANGED <<catalogue, freq, fctxDone>>
    /\ UNCHANGED fetchRest

\* one turn of the loop whose page request fails (the limiter's Wait, the
\* transport, the status code or the decoding)
FetchPageError ==
    /\ fpc = "loop"
    /\ pagesAsked' = Append(pagesAsked, page)
    /\ pageLens' = Append(pageLens, -1)
    /\ ExecuteReturn(<<>>, "failed to fetch page")
    /\ UNCHANGED <<catalogue, freq, page, repos, fctxDone>>
    /\ UNCHANGED fetchRest

\* the caller cancels ctx
FetchCancel ==
    /\ fpc = "loop"
    /\ ~fctxDone
    /\ fctxDone' = TRUE
    /\ UNCHANGED <<catalogue, freq, fpc, page, repos, pagesAsked, pageLens,
                   fetched, fresp>>
    /\ UNCHANGED fetchRest

FetchInit ==
    /\ InitCommon
    /\ RetryPolicy
    /\ maxWorkers = 1
    /\ skipExisting = FALSE
    /\ destExists = [j \in Jobs |-> FALSE]
    /\ tracker = NewProgress(0)
    /\ JobIdle
    /\ LimiterIdle
    /\ SubscriptionIdle
    /\ FlowIdle
    /\ ServiceIdle
    /\ CloseIdle
    /\ ReuseIdle
    /\ DestIdle
    /\ IdIdle
    /\ ManagerIdle
    /\ catalogue \in SeqsUpTo(ApiRepos, MaxRepos)
    /\ freq \in [Type : {"github", "bitbucket"},
                  Filter : {NilFilter} \cup (Filters \ {NewRepositoryFilter}),
                  PerPage : 1..MaxPerPage]
    /\ fpc = "idle"
    /\ page = 0
    /\ repos = <<>>
    /\ fctxDone = FALSE
    /\ pagesAsked = <<>>
    /\ pageLens = <<>>
    /\ fetched = NoFetched
    /\ fresp = NoFetchResponse

FetchPage == FetchPageOK \/ FetchPageError

FetchNext ==
    \/ FetchExecute
    \/ FetchPageOK
    \/ FetchPageError
    \/ FetchCancel

\* The loop runs in the caller's goroutine and every page request returns
\* (the HTTP client has a timeout), so a turn that can be taken is taken.
FetchSpec == FetchInit /\ [][FetchNext]_vars /\ WF_vars(FetchPage)

\* ------------------------------------- the tracker and its subscriber
\* The tracker of a batch, the pool's workers that report to it, Execute's
\* last lines and a subscriber reading pt.updates.  Of a job only its two
\* tracker calls are kept: executeJob calls StartJob, and one terminal
\* transition when the job is over.
\*
\* NewProgressTracker: updates: make(chan *Progress, 10)
UpdatesCap == 10

\* the batches followed run up to the smallest one whose transitions, two
\* to the job, are more than the buffer holds
OverfullBatch == UpdatesCap \div 2 + 1

\* validateProgressConsistency, on the copy
validateProgressConsistency(progress) ==
    LET processed == Processed(progress)
        totalActive == processed + progress.inProgress
        q == IF processed > progress.total
             THEN [progress EXCEPT !.inProgress = 0, !.total = processed]
             ELSE progress
    IN  IF totalActive > q.total
        THEN [q EXCEPT !.inProgress =
                  IF q.total - processed < 0 THEN 0 ELSE q.total - processed]
        ELSE q

\* a slip: a full buffer makes room by giving up its oldest snapshot
notifyUpdate_Overwrite(ch, p) ==
    IF Len(ch) < UpdatesCap
    THEN Append(ch, validateProgressConsistency(p))
    ELSE Append(Tail(ch), validateProgressConsistency(p))

\* notifyUpdate with pt.progress = p: the channel afterwards.  The select
\* sends the validated copy if the buffer has room and takes its default
\* branch otherwise; pt.done is never closed here.
notifyUpdate(ch, p) ==
    IF Len(ch) < UpdatesCap
    THEN Append(ch, validateProgressConsistency(p))
    ELSE ch

subRest ==
    <<jobVars, retryCount, request, maxRetries, retryDelay, maxWorkers,
      skipExisting, destExists,
      poolTracker, results, resultsClosed, wg, cancelled, poolClosed,
      callerCancelled, ucVars, trkVars, jobAloneVars, rlVars, fetchVars,
      stage, lateVars>>

\* a tracker transition under pt.mutex: the counters change and notifyUpdate
\* runs before the lock is released
Transition(p) ==
    /\ tracker' = p
    /\ updates' = notifyUpdate(updates, p)

\* executeJob, first lines, in a free worker
WorkerStartJob ==
    /\ spc = "running"
    /\ todo > 0
    /\ busy < maxWorkers
    /\ Transition(StartJob(tracker))
    /\ todo' = todo - 1
    /\ busy' = busy + 1
    /\ UNCHANGED <<received, calls, spc>>
    /\ UNCHANGED subRest

\* the job is over: handleJobSuccess, handleJobFailure, handleJobSkipped
\* (WithDetails) or handleJobCancellation (FailJob); a caller of the tracker
\* alone may use CompleteJob and SkipJob as well
WorkerTerminal ==
    /\ spc = "running"
    /\ busy > 0
    /\ \E kind \in {"completed", "failed", "skipped"}, details \in BOOLEAN :
          /\ Transition(
                 IF kind = "completed"
                 THEN IF details THEN CompleteJobWithDetails(tracker)
                      ELSE CompleteJob(tracker)
                 ELSE IF kind = "failed"
                 THEN IF details THEN FailJobWithDetails(tracker)
                      ELSE FailJob(tracker)
                 ELSE IF details THEN SkipJobWithDetails(tracker)
                      ELSE SkipJob(tracker))
          /\ calls' = [calls EXCEPT ![kind] = @ + 1]
    /\ busy' = busy - 1
    /\ UNCHANGED <<received, todo, spc>>
    /\ UNCHANGED subRest

\* the loop "for finalProgress.InProgress > 0 { CompleteJob() }", every
\* CompleteJob notifying
RECURSIVE ForceRemainingNotified(_, _)
ForceRemainingNotified(p, ch) ==
    IF p.inProgress > 0
    THEN LET q == CompleteJob(p)
         IN  ForceRemainingNotified(q, notifyUpdate(ch, q))
    ELSE [progress |-> p, updates |-> ch]

\* Execute after pool.Wait(): nothing if the progress is complete, else
\* ForceSynchronize and the loop
ExecuteFinalize ==
    /\ spc = "running"
    /\ todo = 0
    /\ busy = 0
    /\ LET out == IF ~IsComplete(GetProgress(tracker))
                  THEN LET q == ForceSynchronize(tracker)
                       IN  ForceRemainingNotified(q, notifyUpdate(updates, q))
                  ELSE [progress |-> tracker, updates |-> updates]
       IN  /\ tracker' = out.progress
           /\ updates' = out.updates
    /\ spc' = "finished"
    /\ UNCHANGED <<received, todo, busy, calls>>
    /\ UNCHANGED subRest

\* the subscriber: progress := <-updates
Receive ==
    /\ updates /= <<>>
    /\ received' = Head(updates)
    /\ updates' = Tail(updates)
    /\ UNCHANGED <<tracker, todo, busy, calls, spc>>
    /\ UNCHANGED subRest

SubscriptionInit ==
    /\ InitCommon
    /\ RetryPolicy
    /\ maxWorkers \in 1..MaxWorkers
    /\ skipExisting = FALSE
    /\ destExists = [j \in Jobs |-> FALSE]
    /\ JobIdle
    /\ LimiterIdle
    /\ FetchIdle
    /\ FlowIdle
    /\ ServiceIdle
    /\ CloseIdle
    /\ ReuseIdle
    /\ DestIdle
    /\ IdIdle
    /\ ManagerIdle
    /\ todo \in 1..OverfullBatch
    /\ tracker = NewProgress(todo)
    /\ updates = <<>>
    /\ received = NewProgress(0)
    /\ busy = 0
    /\ calls = NoCalls
    /\ spc = "running"

SubscriptionNext ==
    \/ WorkerStartJob
    \/ WorkerTerminal
    \/ ExecuteFinalize
    \/ Receive

\* Workers and Execute run on; the subscriber keeps receiving.
SubscriptionSpec ==
    /\ SubscriptionInit
    /\ [][SubscriptionNext]_vars
    /\ WF_vars(WorkerStartJob)
    /\ WF_vars(WorkerTerminal)
    /\ WF_vars(ExecuteFinalize)
    /\ WF_vars(Receive)


\* ------------------------------------------- worker_pool.go: JobManager
\* Producers call SubmitJob and SubmitHighPriorityJob, Close cancels the
\* context, scheduleJobs moves jobs from the two queues to
\* WorkerPool.SubmitJob.  Jobs are numbers; 0 stands for any job accepted
\* before the jobs followed here.  WorkerPool.SubmitJob blocks until a
\* worker is free, so the call that hands a job on is a step of its own.

\* make(chan *cloning.CloneJob, 100) and make(chan *cloning.CloneJob, 1000)
HighCap == 100
NormalCap == 1000

\* what the components that follow leave alone, one another apart
coreRest ==
    <<jobVars, retryCount, request, maxRetries, retryDelay, maxWorkers,
      skipExisting, destExists, tracker, poolTracker, results, resultsClosed,
      wg, cancelled, poolClosed, callerCancelled, ucVars, trkVars,
      jobAloneVars, rlVars, fetchVars, subVars, stage>>

managerRest == <<coreRest, idgen, dst, rp, ptc, svc>>

Filler(n) == [i \in 1..n |-> 0]

\* SubmitHighPriorityJob / SubmitJob: the select of a send, ctx.Done() and
\* default.  With the context cancelled and room in the queue both cases are
\* ready and either is taken.
ManagerSubmit(high) ==
    /\ jm.pc /= "none"
    /\ jm.nextId <= MaxSubmits
    /\ LET q == IF high THEN jm.high ELSE jm.normal
           cap == IF high THEN HighCap ELSE NormalCap
           sent1 == [jm EXCEPT !.nextId = @ + 1,
                               !.accepted = @ \cup {jm.nextId},
                               !.taken = @ + 1,
                               !.high = IF high THEN Append(@, jm.nextId)
                                                ELSE @,
                               !.normal = IF high THEN @
                                                  ELSE Append(@, jm.nextId)]
           refused == [jm EXCEPT !.nextId = @ + 1]
       IN  \/ Len(q) < cap /\ jm' = sent1
           \/ (Len(q) >= cap \/ jm.done) /\ jm' = refused
    /\ UNCHANGED managerRest

\* scheduleJobs, the outer select
SchedSelect ==
    /\ jm.pc = "select"
    /\ Len(jm.handed) < MaxDispatch
    /\ \/ jm.done /\ jm' = [jm EXCEPT !.pc = "stopped"]
       \/ /\ jm.high /= <<>>
          /\ jm' = [jm EXCEPT !.pc = "submitHigh", !.highJob = Head(jm.high),
                              !.high = Tail(@)]
       \/ /\ jm.normal /= <<>>
          /\ jm' = [jm EXCEPT !.pc = "check", !.job = Head(jm.normal),
                              !.normal = Tail(@)]
    /\ UNCHANGED managerRest

\* case job := <-jm.highPriorityJobs: workerPool.SubmitJob(job) returns
SchedSubmitHigh ==
    /\ jm.pc = "submitHigh"
    /\ jm' = [jm EXCEPT !.pc = "select", !.handed = Append(@, jm.highJob),
                        !.highJob = -1]
    /\ UNCHANGED managerRest

\* case job := <-jm.normalJobs: the inner select on jm.highPriorityJobs
SchedCheck ==
    /\ jm.pc = "check"
    /\ jm' = IF jm.high /= <<>>
             THEN [jm EXCEPT !.pc = "submitFirst", !.highJob = Head(jm.high),
                             !.high = Tail(@)]
             ELSE [jm EXCEPT !.pc = "submitNormal"]
    /\ UNCHANGED managerRest

\* "Submit high priority job first": workerPool.SubmitJob(highPriorityJob)
\* returns
SchedSubmitFirst ==
    /\ jm.pc = "submitFirst"
    /\ jm' = [jm EXCEPT !.pc = "putBack", !.handed = Append(@, jm.highJob),
                        !.highJob = -1]
    /\ UNCHANGED managerRest

\* "Put normal job back in queue": select { case jm.normalJobs <- job:
\* default: "Normal job queue full, dropping job" }
SchedPutBack ==
    /\ jm.pc = "putBack"
    /\ jm' = IF Len(jm.normal) < NormalCap
             THEN [jm EXCEPT !.pc = "select", !.normal = Append(@, jm.job),
                             !.job = -1]
             ELSE [jm EXCEPT !.pc = "select", !.dropped = @ \cup {jm.job},
                             !.job = -1]
    /\ UNCHANGED managerRest

\* "No high priority jobs, submit normal job": workerPool.SubmitJob(job)
\* returns
SchedSubmitNormal ==
    /\ jm.pc = "submitNormal"
    /\ jm' = [jm EXCEPT !.pc = "select", !.handed = Append(@, jm.job),
                        !.job = -1]
    /\ UNCHANGED managerRest

\* Close, first line: jm.cancel()
ManagerClose ==
    /\ jm.pc /= "none"
    /\ ~jm.done
    /\ jm' = [jm EXCEPT !.done = TRUE]
    /\ UNCHANGED managerRest

\* NewJobManager, and then any number of jobs accepted and not yet taken by
\* the scheduler: none, or as many as leave one free place
ManagerInit ==
    /\ InitCommon
    /\ RetryPolicy
    /\ maxWorkers = 1
    /\ skipExisting = FALSE
    /\ destExists = [j \in Jobs |-> FALSE]
    /\ tracker = NewProgress(0)
    /\ JobIdle
    /\ LimiterIdle
    /\ FetchIdle
    /\ SubscriptionIdle
    /\ FlowIdle
    /\ ServiceIdle
    /\ CloseIdle
    /\ ReuseIdle
    /\ DestIdle
    /\ IdIdle
    /\ \E h \in {0, HighCap - 1}, n \in {0, NormalCap - 1} :
           jm = [high |-> Filler(h), normal |-> Filler(n), pc |-> "select",
                 job |-> -1, highJob |-> -1, handed |-> <<>>,
                 accepted |-> {}, dropped |-> {}, nextId |-> 1,
                 done |-> FALSE, taken |-> h + n]

ManagerNext ==
    \/ ManagerSubmit(TRUE)
    \/ ManagerSubmit(FALSE)
    \/ SchedSelect
    \/ SchedSubmitHigh
    \/ SchedCheck
    \/ SchedSubmitFirst
    \/ SchedPutBack
    \/ SchedSubmitNormal
    \/ ManagerClose

ManagerSpec == ManagerInit /\ [][ManagerNext]_vars

\* ------------------------------------------- job.go: job ids
\* NewCloneJob names a job after the wall clock's reading; CloneBatch and
\* CloneSingle file the job under that name.  Two readings of the clock are
\* equal when it has not moved in between (its resolution is the
\* platform's, not the nanosecond of the number's unit).

idRest == <<coreRest, jm, dst, rp, ptc, svc>>

\* generateJobID: fmt.Sprintf("job_%d", time.Now().UnixNano())
generateJobID == idgen.clock

\* NewCloneJob
IdNewCloneJob ==
    /\ Len(idgen.ids) < MaxCreated
    /\ idgen' = [idgen EXCEPT !.ids = Append(@, generateJobID)]
    /\ UNCHANGED idRest

\* s.activeJobs[job.ID] = job, for the next job not yet filed
IdRegister ==
    /\ \E i \in 1..Len(idgen.ids) :
           /\ \A k \in 1..(i - 1) : idgen.ids[k] \in idgen.activeJobs
           /\ idgen.ids[i] \notin idgen.activeJobs
           /\ idgen' = [idgen EXCEPT !.activeJobs = @ \cup {idgen.ids[i]}]
    /\ UNCHANGED idRest

\* the wall clock moves on
IdClockAdvance ==
    /\ idgen.clock < MaxClock
    /\ idgen' = [idgen EXCEPT !.clock = @ + 1]
    /\ UNCHANGED idRest

IdInit ==
    /\ InitCommon
    /\ RetryPolicy
    /\ maxWorkers = 1
    /\ skipExisting = FALSE
    /\ destExists = [j \in Jobs |-> FALSE]
    /\ tracker = NewProgress(0)
    /\ JobIdle
    /\ LimiterIdle
    /\ FetchIdle
    /\ SubscriptionIdle
    /\ FlowIdle
    /\ ServiceIdle
    /\ CloseIdle
    /\ ReuseIdle
    /\ DestIdle
    /\ ManagerIdle
    /\ idgen = NoIds

IdNext ==
    \/ IdNewCloneJob
    \/ IdRegister
    \/ IdClockAdvance

IdSpec == IdInit /\ [][IdNext]_vars

\* ------------------------------------------- job.go: destinations
\* A batch validateRequest accepted (every repository valid; nothing
\* compares one repository with another) has one job for each repository;
\* the pool runs up to maxWorkers of them at a time, each CloneRepository
\* removing and writing job.GetDestinationPath().

destRest == <<coreRest, jm, idgen, rp, ptc, svc>>

\* Repository.GetLocalPath: filepath.Join(baseDir, r.Name)
GetLocalPath(r) == <<"base", r.name>>

\* CloneJob.GetDestinationPath
GetDestinationPath(r, createOrgDirs) ==
    IF createOrgDirs THEN <<"base", r.owner, r.name>> ELSE GetLocalPath(r)

DestJobs == 1..Len(dst.repos)
DestPath(i) == GetDestinationPath(dst.repos[i], dst.orgDirs)
DestCloning == {i \in DestJobs : dst.at[i] = "cloning"}

\* a worker takes the job: executeJob calls CloneRepository
DestStartClone(i) ==
    /\ i \in DestJobs
    /\ dst.at[i] = "new"
    /\ Cardinality(DestCloning) < maxWorkers
    /\ dst' = [dst EXCEPT !.at[i] = "cloning"]
    /\ UNCHANGED destRest

\* CloneRepository returns
DestEndClone(i) ==
    /\ i \in DestJobs
    /\ dst.at[i] = "cloning"
    /\ dst' = [dst EXCEPT !.at[i] = "done"]
    /\ UNCHANGED destRest

DestRepositories ==
    [owner : 1..MaxOwners, name : 1..MaxNames]

DestInit ==
    /\ InitCommon
    /\ RetryPolicy
    /\ maxWorkers \in 1..MaxWorkers
    /\ skipExisting = FALSE
    /\ destExists = [j \in Jobs |-> FALSE]
    /\ tracker = NewProgress(0)
    /\ JobIdle
    /\ LimiterIdle
    /\ FetchIdle
    /\ SubscriptionIdle
    /\ FlowIdle
    /\ ServiceIdle
    /\ CloseIdle
    /\ ReuseIdle
    /\ ManagerIdle
    /\ IdIdle
    /\ \E n \in 1..MaxDestJobs, o \in BOOLEAN :
         \E rs \in [1..n -> DestRepositories] :
           dst = [repos |-> rs, orgDirs |-> o, at |-> [i \in 1..n |-> "new"]]

DestNext ==
    \/ \E i \in 1..MaxDestJobs : DestStartClone(i)
    \/ \E i \in 1..MaxDestJobs : DestEndClone(i)

DestSpec == DestInit /\ [][DestNext]_vars

\* ------------------------------------------- worker_pool.go: a pool used again
\* The use case keeps the pool it was built with: every Execute submits to
\* it, collects from wp.results and calls Wait, which closes wp.results.
\* A send or a close on a closed channel panics and ends the program.

reuseRest == <<coreRest, jm, idgen, dst, ptc, svc>>

\* Execute: a batch of n valid jobs is about to be submitted
ReuseExecute ==
    /\ rp.panic = "none"
    /\ rp.upc = "done"
    /\ rp.run < MaxRuns
    /\ \E n \in 1..MaxRunJobs :
          rp' = [rp EXCEPT !.run = @ + 1, !.upc = "submit", !.n = n,
                           !.left = n, !.got = 0]
    /\ UNCHANGED reuseRest

\* SubmitJobs, one iteration; on a pool that was closed SubmitJob fails and
\* Execute returns the error
ReuseSubmit ==
    /\ rp.panic = "none"
    /\ rp.upc = "submit"
    /\ IF rp.cancel
       THEN rp' = [rp EXCEPT !.upc = "done"]
       ELSE /\ rp.running < maxWorkers
            /\ rp' = [rp EXCEPT !.wgc = @ + 1, !.running = @ + 1,
                                !.left = @ - 1,
                                !.upc = IF rp.left = 1 THEN "collect"
                                                       ELSE "submit"]
    /\ UNCHANGED reuseRest

\* a task ends: the handler's select { case wp.results <- result:
\* case <-wp.ctx.Done(): }, then the deferred wg.Done
ReuseTaskEnd ==
    /\ rp.panic = "none"
    /\ rp.running > 0
    /\ \/ /\ rp.closed
          /\ rp' = [rp EXCEPT !.panic = "send on closed channel"]
       \/ /\ ~rp.closed
          /\ rp.buffered < ResultsCap
          /\ rp' = [rp EXCEPT !.buffered = @ + 1, !.running = @ - 1,
                              !.wgc = @ - 1]
       \/ /\ rp.cancel
          /\ rp' = [rp EXCEPT !.running = @ - 1, !.wgc = @ - 1]
    /\ UNCHANGED reuseRest

\* collectResults, one iteration: a result, or nil from the closed channel
ReuseCollect ==
    /\ rp.panic = "none"
    /\ rp.upc = "collect"
    /\ rp.got < rp.n
    /\ rp.closed \/ rp.buffered > 0
    /\ rp' = [rp EXCEPT !.got = @ + 1,
                        !.buffered = IF @ > 0 THEN @ - 1 ELSE 0]
    /\ UNCHANGED reuseRest

\* collectResults returns
ReuseCollectReturn ==
    /\ rp.panic = "none"
    /\ rp.upc = "collect"
    /\ rp.got = rp.n
    /\ rp' = [rp EXCEPT !.upc = "wait"]
    /\ UNCHANGED reuseRest

\* WorkerPool.Wait: wp.wg.Wait(); close(wp.results); Execute returns
ReuseWait ==
    /\ rp.panic = "none"
    /\ rp.upc = "wait"
    /\ rp.wgc = 0
    /\ rp' = IF rp.closed
             THEN [rp EXCEPT !.closes = @ + 1,
                             !.panic = "close of closed channel"]
             ELSE [rp EXCEPT !.closes = @ + 1, !.closed = TRUE,
                             !.upc = "done"]
    /\ UNCHANGED reuseRest

\* Close / ForceClose: wp.cancel()
ReuseCancel ==
    /\ rp.panic = "none"
    /\ ~rp.cancel
    /\ rp' = [rp EXCEPT !.cancel = TRUE]
    /\ UNCHANGED reuseRest

ReuseInit ==
    /\ InitCommon
    /\ RetryPolicy
    /\ maxWorkers \in 1..MaxWorkers
    /\ skipExisting = FALSE
    /\ destExists = [j \in Jobs |-> FALSE]
    /\ tracker = NewProgress(0)
    /\ JobIdle
    /\ LimiterIdle
    /\ FetchIdle
    /\ SubscriptionIdle
    /\ FlowIdle
    /\ ServiceIdle
    /\ CloseIdle
    /\ ManagerIdle
    /\ IdIdle
    /\ DestIdle
    /\ rp = NoReuse

ReuseNext ==
    \/ ReuseExecute
    \/ ReuseSubmit
    \/ ReuseTaskEnd
    \/ ReuseCollect
    \/ ReuseCollectReturn
    \/ ReuseWait
    \/ ReuseCancel

ReuseSpec == ReuseInit /\ [][ReuseNext]_vars

\* ------------------------------------------- progress.go: Close
\* A tracker with a subscriber; Close runs next to the transitions (it does
\* not take pt.mutex).  A select takes any one of its cases that can
\* proceed; a send on a closed channel can proceed, and panics.

closeRest == <<coreRest, jm, idgen, dst, rp, svc>>

\* StartJob, CompleteJob, FailJob, SkipJob, ForceSynchronize: the counters
\* change, then notifyUpdate's select { case pt.updates <- &progressCopy:
\* case <-pt.done: default: }
CloseTransition ==
    /\ ptc.panic = "none"
    /\ ptc.ops < MaxCloseOps
    /\ \E p \in {StartJob(ptc.progress), CompleteJob(ptc.progress),
                  FailJob(ptc.progress), SkipJob(ptc.progress),
                  ForceSynchronize(ptc.progress)} :
         LET q == [ptc EXCEPT !.progress = p, !.ops = @ + 1,
                              !.late = ptc.updatesClosed]
         IN  \/ /\ ptc.updatesClosed
                /\ ptc' = [q EXCEPT !.panic = "send on closed channel"]
             \/ /\ ~ptc.updatesClosed
                /\ ptc.buffered < UpdatesCap
                /\ ptc' = [q EXCEPT !.buffered = @ + 1]
             \/ /\ ptc.doneClosed
                /\ ptc' = q
             \/ /\ ~ptc.updatesClosed
                /\ ~ptc.doneClosed
                /\ ptc.buffered >= UpdatesCap
                /\ ptc' = q
    /\ UNCHANGED closeRest

\* Close, first line: close(pt.done)
CloseDone ==
    /\ ptc.panic = "none"
    /\ ~ptc.doneClosed
    /\ ptc' = [ptc EXCEPT !.doneClosed = TRUE]
    /\ UNCHANGED closeRest

\* Close, second line: close(pt.updates)
CloseUpdates ==
    /\ ptc.panic = "none"
    /\ ptc.doneClosed
    /\ ~ptc.updatesClosed
    /\ ptc' = [ptc EXCEPT !.updatesClosed = TRUE]
    /\ UNCHANGED closeRest

\* the subscriber: progress, ok := <-updates
CloseReceive ==
    /\ ptc.panic = "none"
    /\ \/ /\ ptc.buffered > 0
          /\ ptc' = [ptc EXCEPT !.buffered = @ - 1, !.saw = "snapshot"]
       \/ /\ ptc.buffered = 0
          /\ ptc.updatesClosed
          /\ ptc.saw /= "closed"
          /\ ptc' = [ptc EXCEPT !.saw = "closed"]
    /\ UNCHANGED closeRest

CloseInit ==
    /\ InitCommon
    /\ RetryPolicy
    /\ maxWorkers = 1
    /\ skipExisting = FALSE
    /\ destExists = [j \in Jobs |-> FALSE]
    /\ tracker = NewProgress(0)
    /\ JobIdle
    /\ LimiterIdle
    /\ FetchIdle
    /\ SubscriptionIdle
    /\ FlowIdle
    /\ ServiceIdle
    /\ ManagerIdle
    /\ IdIdle
    /\ DestIdle
    /\ ReuseIdle
    /\ \E total \in 1..MaxTotal :
          ptc = [NoClose EXCEPT !.progress = NewProgress(total)]

CloseNext ==
    \/ CloseTransition
    \/ CloseDone
    \/ CloseUpdates
    \/ CloseReceive

CloseSpec == CloseInit /\ [][CloseNext]_vars

\* ------------------------------------------- cloning_service.go: CloneBatch
\* CloneBatch has made its own tracker for len(req.Repositories) jobs, filed
\* every job in s.activeJobs and handed it to the Job Manager; the scheduler
\* passes the jobs to WorkerPool.SubmitJob one by one.  The pool was built
\* without a tracker (commands/clone.go) and nothing calls
\* SetProgressTracker with the service's, so the workers' tracker calls are
\* skipped; nothing receives from wp.results either.

\* scheduleJobs: workerPool.SubmitJob(job) for a job of the batch
PoolSubmit(j) ==
    /\ svc.active /= {} \/ svc.cancelled /= {}
    /\ pc[j] = "new"
    /\ ~poolClosed
    /\ Cardinality(Busy) < maxWorkers
    /\ wg' = wg + 1
    /\ pc' = [pc EXCEPT ![j] = "start"]
    /\ UNCHANGED <<status, jobErr, attempt, lastErr, result, cloneCalls,
                   termCalls, sent, succeeded, timer>>
    /\ UNCHANGED <<envVars, destExists, tracker, poolTracker, results,
                   resultsClosed, cancelled, poolClosed, callerCancelled,
                   ucVars, trkVars>>

serviceRest ==
    <<pc, attempt, lastErr, result, cloneCalls, termCalls, sent, succeeded,
      timer, retryCount, request, maxRetries, retryDelay, maxWorkers,
      skipExisting, destExists, tracker, poolTracker, results, resultsClosed,
      wg, cancelled, poolClosed, callerCancelled, ucVars, trkVars,
      jobAloneVars, rlVars, fetchVars, subVars, stage, jm, idgen, dst, rp,
      ptc>>

\* the jobs CancelJob and CancelAllJobs act on
Cancellable(j) ==
    /\ j \in svc.active
    /\ status[j] \in {JobStatusPending, JobStatusRunning}

\* job.MarkFailed(fmt.Errorf("cancelled by user")); delete(s.activeJobs, id)
MarkCancelled(js) ==
    /\ status' = [j \in Jobs |-> IF j \in js THEN JobStatusFailed
                                            ELSE status[j]]
    /\ jobErr' = [j \in Jobs |-> IF j \in js THEN "cancelled by user"
                                            ELSE jobErr[j]]
    /\ svc' = [active |-> svc.active \ js, cancelled |-> svc.cancelled \cup js]

\* CancelJob(jobID) returning nil
CancelJob(j) ==
    /\ Cancellable(j)
    /\ MarkCancelled({j})
    /\ UNCHANGED serviceRest

\* CancelAllJobs
CancelAllJobs ==
    /\ svc.active /= {}
    /\ MarkCancelled({j \in Jobs : Cancellable(j)})
    /\ UNCHANGED serviceRest

\* CloningService.GetProgress
ServiceGetProgress == GetProgress(tracker)

ServiceInit ==
    /\ InitCommon
    /\ RetryPolicy
    /\ maxWorkers \in 1..MaxWorkers
    /\ skipExisting \in BOOLEAN
    /\ destExists \in [Jobs -> BOOLEAN]
    /\ tracker = NewProgress(NumJobs)
    /\ JobIdle
    /\ LimiterIdle
    /\ FetchIdle
    /\ SubscriptionIdle
    /\ FlowIdle
    /\ ManagerIdle
    /\ IdIdle
    /\ DestIdle
    /\ ReuseIdle
    /\ CloseIdle
    /\ svc = [active |-> Jobs, cancelled |-> {}]

ServiceNext ==
    \/ \E j \in Jobs : PoolSubmit(j)
    \/ \E j \in Jobs : Worker(j)
    \/ \E j \in Jobs : CancelJob(j)
    \/ CancelAllJobs
    \/ Cancel

\* the scheduler goroutine and the pool's workers run on
ServiceSpec ==
    /\ ServiceInit
    /\ [][ServiceNext]_vars
    /\ \A j \in Jobs : WF_vars(PoolSubmit(j))
    /\ \A j \in Jobs : WF_vars(Worker(j))

\* ------------------------------------------- worker_pool.go: one job alone
\* A pool built with any retry policy (NewWorkerPool makes MaxRetries and
\* RetryDelay positive) runs one job: the loop of executeJob
\* with its backoff, next to a Close that may cancel the pool at any moment.

\* SubmitJob(job) called on the pool directly
SubmitAlone ==
    /\ pc[1] = "new"
    /\ ~poolClosed
    /\ wg' = wg + 1
    /\ pc' = [pc EXCEPT ![1] = "start"]
    /\ UNCHANGED <<status, jobErr, attempt, lastErr, result, cloneCalls,
                   termCalls, sent, succeeded, timer>>
    /\ UNCHANGED <<envVars, destExists, tracker, poolTracker, results,
                   resultsClosed, cancelled, poolClosed, callerCancelled,
                   ucVars, trkVars>>

BackoffInit ==
    /\ InitCommon
    /\ maxRetries \in 1..MaxPoolRetries
    /\ retryDelay \in 1..MaxRetryDelay
    /\ maxWorkers = 1
    /\ skipExisting \in BOOLEAN
    /\ destExists \in [Jobs -> BOOLEAN]
    /\ tracker = NewProgress(0)
    /\ JobIdle
    /\ LimiterIdle
    /\ FetchIdle
    /\ SubscriptionIdle
    /\ FlowIdle
    /\ ServiceIdle
    /\ CloseIdle
    /\ ReuseIdle
    /\ DestIdle
    /\ IdIdle
    /\ ManagerIdle

BackoffNext ==
    \/ SubmitAlone
    \/ Worker(1)
    \/ Cancel

BackoffSpec == BackoffInit /\ [][BackoffNext]_vars

\* ------------------------------------------- the flow of a batch
\* Execute, SubmitJobs, the pool's workers and collectResults for batches
\* of more jobs than one follows job by job above.  Of a job only its way
\* through the pool is kept: handed to a worker, executeJob up to the
\* handler's send, the send.  No context is cancelled and every clone
\* attempt returns.
flowRest ==
    <<jobVars, retryCount, request, maxRetries, retryDelay, skipExisting,
      destExists, tracker,
      poolTracker, cancelled, poolClosed, callerCancelled, response,
      trkVars, jobAloneVars, rlVars, fetchVars, subVars, lateVars>>

\* the jobs of the batch (len(validJobs))
FlowJobs == 1..Len(stage)

\* tasks the ants pool is running
FlowBusy == {j \in FlowJobs : stage[j] \in {"running", "send"}}

\* Execute up to SubmitJobs
FlowBegin ==
    /\ ucpc = "idle"
    /\ stage /= <<>>
    /\ ucpc' = "submit"
    /\ UNCHANGED <<stage, maxWorkers, results, resultsClosed, wg, nextSubmit,
                   collectIdx, collected>>
    /\ UNCHANGED flowRest

\* SubmitJobs, one iteration: wg.Add(1) and pool.Submit, which blocks while
\* all maxWorkers workers are busy
FlowSubmitJob ==
    /\ ucpc = "submit"
    /\ Cardinality(FlowBusy) < maxWorkers
    /\ wg' = wg + 1
    /\ stage' = [stage EXCEPT ![nextSubmit] = "running"]
    /\ nextSubmit' = nextSubmit + 1
    /\ ucpc' = IF nextSubmit = Len(stage) THEN "collect" ELSE "submit"
    /\ UNCHANGED <<maxWorkers, results, resultsClosed, collectIdx, collected>>
    /\ UNCHANGED flowRest

\* executeJob of job j up to the final select of the handler it ends in
FlowExecuteJob(j) ==
    /\ stage[j] = "running"
    /\ stage' = [stage EXCEPT ![j] = "send"]
    /\ UNCHANGED <<maxWorkers, results, resultsClosed, wg, ucpc, nextSubmit,
                   collectIdx, collected>>
    /\ UNCHANGED flowRest

\* the handler's select: wp.results <- result, which needs room in the
\* buffer of cap 2 * MaxWorkers (wp.ctx is not cancelled); executeJob
\* returns and the deferred wg.Done runs
FlowSendResult(j) ==
    /\ stage[j] = "send"
    /\ Len(results) < ResultsCap
    /\ \E success \in BOOLEAN :
          results' = Append(results, NewJobResult(j, success))
    /\ stage' = [stage EXCEPT ![j] = "done"]
    /\ wg' = wg - 1
    /\ UNCHANGED <<maxWorkers, resultsClosed, ucpc, nextSubmit, collectIdx,
                   collected>>
    /\ UNCHANGED flowRest

\* collectResults, one iteration of the select: a result is received
FlowCollectResult ==
    /\ ucpc = "collect"
    /\ collectIdx < Len(stage)
    /\ Len(results) > 0
    /\ collected' = collected \cup {Head(results)}
    /\ results' = Tail(results)
    /\ collectIdx' = collectIdx + 1
    /\ UNCHANGED <<stage, maxWorkers, resultsClosed, wg, ucpc, nextSubmit>>
    /\ UNCHANGED flowRest

\* collectResults returns: the loop is over
FlowCollectReturn ==
    /\ ucpc = "collect"
    /\ collectIdx = Len(stage)
    /\ ucpc' = "wait"
    /\ UNCHANGED <<stage, maxWorkers, results, resultsClosed, wg, nextSubmit,
                   collectIdx, collected>>
    /\ UNCHANGED flowRest

\* pool.Wait(): wg.Wait(), close(wp.results); nothing after it blocks, and
\* Execute returns its response
FlowWait ==
    /\ ucpc = "wait"
    /\ wg = 0
    /\ resultsClosed' = TRUE
    /\ ucpc' = "done"
    /\ UNCHANGED <<stage, maxWorkers, results, wg, nextSubmit, collectIdx,
                   collected>>
    /\ UNCHANGED flowRest

FlowInit ==
    /\ ServiceIdle
    /\ CloseIdle
    /\ ReuseIdle
    /\ DestIdle
    /\ IdIdle
    /\ ManagerIdle
    /\ InitCommon
    /\ RetryPolicy
    /\ maxWorkers \in 1..MaxWorkers
    /\ skipExisting = FALSE
    /\ destExists = [j \in Jobs |-> FALSE]
    /\ tracker = NewProgress(0)
    /\ JobIdle
    /\ LimiterIdle
    /\ FetchIdle
    /\ SubscriptionIdle
    /\ stage \in {[j \in 1..n |-> "new"] : n \in 1..MaxBatch}

FlowWorker(j) == FlowExecuteJob(j) \/ FlowSendResult(j)

FlowNext ==
    \/ FlowBegin
    \/ FlowSubmitJob
    \/ \E j \in FlowJobs : FlowWorker(j)
    \/ FlowCollectResult
    \/ FlowCollectReturn
    \/ FlowWait

\* Every goroutine that can take its next step takes it.
FlowSpec ==
    /\ FlowInit
    /\ [][FlowNext]_vars
    /\ WF_vars(FlowBegin \/ FlowSubmitJob)
    /\ \A j \in 1..MaxBatch : WF_vars(j \in FlowJobs /\ FlowWorker(j))
    /\ WF_vars(FlowCollectResult \/ FlowCollectReturn \/ FlowWait)

\* ================================================================ claims
WithStatus(st) == {j \in Jobs : status[j] = st}
InChannel == {results[i] : i \in 1..Len(results)}
Emitted == InChannel \cup collected

\* C1: every job SubmitJob accepted reaches a terminal status, keeps it, and
\* the tracker is told of exactly one terminal transition for it, whichever
\* way executeJob ends (success, skip, permanent error, retries exhausted,
\* cancellation), given that clone attempts return and timers fire.
TerminalDominance ==
    /\ [](\A j \in Jobs :
            /\ termCalls[j] <= 1
            /\ (status[j] \in TerminalStatus <=> termCalls[j] = 1)
            /\ (pc[j] = "done" => status[j] \in TerminalStatus))
    /\ [][\A j \in Jobs :
            status[j] \in TerminalStatus => status'[j] = status[j]]_vars
    /\ \A j \in Jobs :
            (pc[j] = "start") ~> (status[j] \in TerminalStatus /\ termCalls[j] = 1)

\* C1 witness: one job ended by cancellation, its sibling by a clone that
\* succeeded, each reported once.
TerminalDominanceWitness ==
    \E j, k \in Jobs :
        /\ pc[j] = "done" /\ jobErr[j] = "job cancelled" /\ termCalls[j] = 1
        /\ pc[k] = "done" /\ status[k] = JobStatusCompleted /\ termCalls[k] = 1

\* C2 as stated: at most maxRetries+1 clone calls per job, and a job whose
\* latest attempt returned a permanent error has been attempted exactly once.
RetryBoundAsStated ==
    \A j \in Jobs :
        /\ cloneCalls[j] <= MaxRetries + 1
        /\ (lastErr[j] \in PermanentErrors => cloneCalls[j] = 1)

\* C2 amended: at most maxRetries+1 clone calls per job, and an attempt that
\* returns a permanent error is the job's last: the job is failed at once and
\* no clone call follows (so one attempt in all when it was the first).
RetryBound ==
    /\ [](\A j \in Jobs :
            /\ cloneCalls[j] <= MaxRetries + 1
            /\ (lastErr[j] \in PermanentErrors =>
                    pc[j] = "emit" /\ status[j] = JobStatusFailed))
    /\ [][\A j \in Jobs :
            lastErr[j] \in PermanentErrors => cloneCalls'[j] <= cloneCalls[j]]_vars

\* C2 witness: a job failed by a permanent error on its only attempt, beside
\* a job that used all maxRetries+1 attempts on retryable errors.
RetryBoundWitness ==
    \E j, k \in Jobs :
        /\ lastErr[j] \in PermanentErrors /\ cloneCalls[j] = 1
        /\ status[j] = JobStatusFailed
        /\ lastErr[k] = "TimeoutError"
        /\ cloneCalls[k] = MaxRetries + 1 /\ status[k] = JobStatusFailed

\* C3: the response Execute returns after pool.Wait carries a snapshot with
\* completed+failed+skipped = total = TotalJobs and inProgress = 0.
FinalAccounting ==
    ucpc = "done" =>
        /\ Processed(response.Progress) = response.Progress.total
        /\ response.Progress.total = response.TotalJobs
        /\ response.TotalJobs = NumJobs
        /\ response.Progress.inProgress = 0
        /\ response.CompletedJobs = response.Progress.completed
        /\ response.FailedJobs = response.Progress.failed
        /\ response.SkippedJobs = response.Progress.skipped

\* C3 witness: Execute has returned from a batch in which one job was
\* cancelled and another completed.
FinalAccountingWitness ==
    /\ ucpc = "done"
    /\ \E j, k \in Jobs :
        jobErr[j] = "job cancelled" /\ status[k] = JobStatusCompleted

\* C4: in every state of the batch the tracker has
\* completed+failed+skipped+inProgress <= total.
RunningAccounting ==
    Processed(tracker) + tracker.inProgress <= tracker.total

\* C4 witness: the batch's tracker is full: some jobs counted, the rest in
\* progress.
RunningAccountingWitness ==
    /\ poolTracker
    /\ Processed(tracker) > 0
    /\ tracker.inProgress > 0
    /\ Processed(tracker) + tracker.inProgress = tracker.total

\* C5: no tracker operation lowers completed, failed or skipped, and neither
\* do successive GetProgress snapshots.
MonotoneCounters ==
    [][/\ tracker'.completed >= tracker.completed
       /\ tracker'.failed >= tracker.failed
       /\ tracker'.skipped >= tracker.skipped
       /\ snapshot'.completed >= snapshot.completed
       /\ snapshot'.failed >= snapshot.failed
       /\ snapshot'.skipped >= snapshot.skipped]_vars

\* C5 witness: ForceSynchronize has just raised completed above the value
\* an earlier snapshot showed, with a failure counted in between.
MonotoneCountersWitness ==
    /\ lastOp = "ForceSynchronize"
    /\ snapshot.completed >= 1
    /\ tracker.completed > snapshot.completed
    /\ tracker.failed >= 1
    /\ tracker.inProgress = 0

\* C6 as stated: a job whose destination holds a .git that no successful
\* clone of its own put there, with SkipExisting set, ends skipped.
SkipOnExistsAsStated ==
    \A j \in Jobs :
        destExists[j] /\ ~succeeded[j] /\ skipExisting
            /\ status[j] \in TerminalStatus
            => status[j] = JobStatusSkipped

\* C6 amended: a clone attempt that passes validation and finds .git at the
\* destination with SkipExisting set is the job's last attempt (its only one
\* when it is the first); the job ends skipped, skipped grows by one while
\* completed and failed stay, and the Job Result built and sent for it has
\* success = true.
SkipOnExists ==
    /\ [][\A j \in Jobs :
            ( /\ pc[j] = "cloning" /\ pc'[j] /= "cloning"
              /\ destExists[j] /\ skipExisting
              /\ lastErr'[j] /= "PlainError" )
            => /\ status'[j] = JobStatusSkipped
               /\ pc'[j] = "emit"
               /\ result'[j] = NewJobResult(j, TRUE)
               /\ tracker'.skipped = tracker.skipped + 1
               /\ tracker'.completed = tracker.completed
               /\ tracker'.failed = tracker.failed
               /\ (attempt[j] = 0 => cloneCalls'[j] = 1)]_vars
    /\ [](\A r \in Emitted : status[r.job] = JobStatusSkipped => r.success)
    /\ [][\A j \in Jobs :
            status[j] = JobStatusSkipped =>
                status'[j] = JobStatusSkipped /\ cloneCalls'[j] <= cloneCalls[j]]_vars

\* C6 witness: a job whose repository was there from the start has been
\* skipped, counted as skipped only, and its result sent.
SkipOnExistsWitness ==
    \E j \in Jobs :
        /\ destExists[j] /\ ~succeeded[j] /\ skipExisting
        /\ status[j] = JobStatusSkipped /\ sent[j] = 1
        /\ tracker.skipped = 1 /\ tracker.completed = 0 /\ tracker.failed = 0
        /\ \E r \in Emitted : r.job = j /\ r.success

\* C7 as stated: a job whose executeJob has returned has had exactly one Job
\* Result put on the results channel, with success = true iff the job is
\* completed or skipped; a cancelled job too (success = false).
OneResultPerJob ==
    \A j \in Jobs :
        pc[j] = "done" =>
            /\ sent[j] = 1
            /\ \A r \in Emitted :
                 r.job = j =>
                    (r.success <=>
                        status[j] \in {JobStatusCompleted, JobStatusSkipped})

\* C8: for each job StartJob comes before its terminal transition (so the
\* floor of InProgress is never hit and InProgress counts exactly the jobs
\* between the two), the terminal transition comes before the result is
\* sent, and whoever holds a job's result finds the job counted.
PerJobOrdering ==
    /\ \A j \in Jobs :
        /\ termCalls[j] >= 1 => status[j] \in TerminalStatus
        /\ sent[j] >= 1 => termCalls[j] = 1
    /\ poolTracker =>
            tracker.inProgress =
                Cardinality({j \in Jobs : pc[j] \in {"attempt", "cloning", "backoff"}})
    /\ \A st \in TerminalStatus :
            Cardinality({r \in Emitted : status[r.job] = st})
                <= (CASE st = JobStatusCompleted -> tracker.completed
                      [] st = JobStatusFailed -> tracker.failed
                      [] st = JobStatusSkipped -> tracker.skipped)

\* C8 witness: the consumer holds the result of a completed job while a
\* sibling is still in progress.
PerJobOrderingWitness ==
    /\ \E r \in collected : status[r.job] = JobStatusCompleted
    /\ tracker.completed = 1
    /\ tracker.inProgress = 1

\* C9: with a pool of maxWorkers workers, never more than maxWorkers jobs
\* are in progress or running.
BoundedConcurrency ==
    /\ tracker.inProgress <= maxWorkers
    /\ Cardinality(WithStatus(JobStatusRunning)) <= maxWorkers
    /\ Cardinality(Busy) <= maxWorkers

\* C9 witness: more jobs than workers, every worker busy and a job still
\* waiting to be submitted.
BoundedConcurrencyWitness ==
    /\ maxWorkers < NumJobs
    /\ ucpc = "submit"
    /\ tracker.inProgress = maxWorkers
    /\ \E j \in Jobs : pc[j] = "new"

\* C10: a failed job carries an error and is counted as failed only; every
\* job one of whose clone attempts succeeded is completed and counted once,
\* whatever its siblings did.
SiblingIndependence ==
    /\ \A j \in Jobs :
        /\ status[j] = JobStatusFailed => jobErr[j] /= "nil"
        /\ succeeded[j] => status[j] = JobStatusCompleted /\ termCalls[j] = 1
    /\ tracker.completed = Cardinality(WithStatus(JobStatusCompleted))
    /\ tracker.failed = Cardinality(WithStatus(JobStatusFailed))
    /\ tracker.skipped = Cardinality(WithStatus(JobStatusSkipped))

\* C10 witness: a job failed by a clone error, its sibling completed and
\* its result sent.
SiblingIndependenceWitness ==
    \E j, k \in Jobs :
        /\ status[j] = JobStatusFailed /\ jobErr[j] = "error" /\ pc[j] = "done"
        /\ succeeded[k] /\ status[k] = JobStatusCompleted /\ sent[k] = 1
        /\ tracker.failed = 1 /\ tracker.completed = 1

\* C11: a job whose first attempt failed with a retryable error and that
\* later succeeded is completed with a retry count above zero, equal to the
\* number of retries executeJob performed (its attempt index at the
\* successful attempt), and at most maxRetries.
RetryCountRecorded ==
    \A j \in Jobs :
        pc[j] = "emit" /\ status[j] = JobStatusCompleted /\ attempt[j] > 0
            => /\ retryCount[j] > 0
               /\ retryCount[j] = attempt[j]
               /\ retryCount[j] <= MaxRetries

\* C12: over any sequence of MarkStarted, MarkCompleted, MarkFailed,
\* MarkSkipped and Retry a job's status moves only forward along pending,
\* running, terminal, and a terminal status is never replaced, except that
\* failed goes back to pending exactly when Retry is called with a retry
\* count below the maximum.
StatusRank(st) ==
    IF st = JobStatusPending THEN 0 ELSE IF st = JobStatusRunning THEN 1 ELSE 2

StatusStateMachine ==
    lastOp /= "none" =>
        IF lastOp = "Retry" /\ prevStatus = JobStatusFailed
        THEN \/ status[1] = JobStatusPending /\ retryCount[1] <= JobMaxRetries
             \/ status[1] = JobStatusFailed /\ retryCount[1] = JobMaxRetries
        ELSE /\ StatusRank(prevStatus) <= StatusRank(status[1])
             /\ prevStatus \in TerminalStatus => status[1] = prevStatus

ValidationNotRetried ==
    request.BaseDirectory = "readOnly" =>
        \A j \in Jobs :
            /\ cloneCalls[j] <= 1
            /\ pc[j] /= "backoff"
            /\ lastErr[j] /= "nil" => status[j] = JobStatusFailed

\* C15: a request that is nil, has an empty repository list, an empty,
\* relative or unwritable base directory, a nil or invalid repository, a
\* negative depth or a negative concurrency is rejected by Execute, and a
\* rejected request leaves the pool, its tracker reference and its results
\* channel as they were: no job is created, submitted or started.
FaultyRequest(req) ==
    \/ req.nil
    \/ req.Repositories \in {"empty", "hasNil", "hasInvalid"}
    \/ req.BaseDirectory \in {"", "relative", "parentUnwritable", "readOnly"}
    \/ req.Options = "negativeDepth"
    \/ req.Concurrency < 0

BatchFaultsAbort ==
    ucpc /= "idle" =>
        /\ FaultyRequest(request) => ucpc = "rejected"
        /\ ucpc = "rejected" =>
               /\ ~poolTracker /\ tracker = NewProgress(0)
               /\ results = <<>> /\ ~resultsClosed /\ wg = 0
               /\ response = NoResponse
               /\ \A j \in Jobs :
                      pc[j] = "new" /\ status[j] = JobStatusPending

\* C16: Wait returns nil, having taken exactly one token, or the
\* cancellation error of its cancel signal; an empty bucket makes the caller
\* block and never yields any other error.
WaitFailsOnlyOnCancellation ==
    \A c \in Callers :
        /\ ret[c] /= "rate limit exceeded"
        /\ ret[c] = "nil" => consumed[c] = OneToken
        /\ ret[c] = "ctx.Err" => ctxDone[c] /\ consumed[c] = 0

\* C17: Allow never waits, in no state of the limiter, another caller
\* suspended inside Wait included: a caller that has reached Allow's
\* r.mu.Lock() finds the mutex free; Allow returns true iff it took one
\* token, and false leaves the tokens as they were.
AllowNonBlocking ==
    \A c \in Callers :
        /\ lpc[c] = "allow.lock" => mu = "free"
        /\ ret[c] = "true" => consumed[c] = OneToken
        /\ ret[c] = "false" => consumed[c] = 0

\* C18: for a bucket of capacity C, full at first, refilled at C per hour and
\* filled up when the reset time passes, with no hint from the provider,
\* the Waits that return nil inside any window of one hour number at most
\* C.
WindowUpperBound ==
    ~hinted => winCount <= rl.limit

\* C19: every record in the response of FetchRepositoriesUseCase.Execute
\* satisfies the request's filter: forks only if included, size at least
\* the minimum and at most the maximum (-1: no maximum), language among the
\* allowed ones (none given: any), updated at or after the given time (none
\* given: any), public if only public ones are asked for; on the GitHub and
\* on the Bitbucket path, whatever the pages hold.
FilterAccepts(rf, repo) ==
    /\ rf.IncludeForks \/ ~repo.IsFork
    /\ repo.Size >= rf.MinSize
    /\ rf.MaxSize = -1 \/ repo.Size <= rf.MaxSize
    /\ rf.Languages = {} \/ repo.Language \in rf.Languages
    /\ rf.UpdatedAfter = 0 \/ repo.UpdatedAt >= rf.UpdatedAfter
    /\ ~rf.OnlyPublic \/ repo.CloneURL = "https"

FilterSoundness ==
    fpc = "done" =>
        \A i \in 1..Len(fresp.Repositories) :
            FilterAccepts(freq.Filter, fresp.Repositories[i])

\* C19 witness: a response with a record in it, after more than one page,
\* from an owner with a fork that the default filter kept out.
FilterSoundnessWitness ==
    /\ fpc = "done" /\ fresp.err = "nil"
    /\ Len(fresp.Repositories) >= 1
    /\ Len(pagesAsked) >= 2
    /\ freq.Filter = NewRepositoryFilter
    /\ \E i \in 1..Len(catalogue) : Validate(catalogue[i]) /\ catalogue[i].Fork

\* C20: GitHub enumeration asks for the pages 1, 2, 3, ... in this order, asks
\* for a further page only after a page of exactly per_page items and stops
\* after the first page with fewer; a page request that fails ends it with
\* that error and no records; and it ends, for any provider that comes to
\* serve a page with fewer than per_page items.
GitHubPagesInvariant ==
    freq.Type = "github" =>
        /\ \A i \in 1..Len(pagesAsked) : pagesAsked[i] = i
        /\ \A i \in 1..(Len(pageLens) - 1) : pageLens[i] = freq.PerPage
        /\ pageLens /= <<>> /\ pageLens[Len(pageLens)] < freq.PerPage
               => fpc = "done"
        /\ fpc = "done" /\ fetched.err = "nil"
               => /\ pageLens[Len(pageLens)] < freq.PerPage
                  /\ pageLens[Len(pageLens)] >= 0
        /\ pageLens /= <<>> /\ pageLens[Len(pageLens)] = -1
               => /\ fpc = "done"
                  /\ fetched = [repos |-> <<>>, err |-> "failed to fetch page"]
                  /\ fresp.err /= "nil" /\ fresp.Repositories = <<>>

GitHubPagination ==
    /\ []GitHubPagesInvariant
    /\ (freq.Type = "github" /\ fpc = "loop") ~> (fpc = "done")

\* C20 witness: a GitHub enumeration that ended without error after three
\* pages, the last of them short.
GitHubPaginationWitness ==
    /\ freq.Type = "github" /\ fpc = "done" /\ fetched.err = "nil"
    /\ pagesAsked = <<1, 2, 3>>
    /\ pageLens[3] < freq.PerPage

\* C21: Bitbucket enumeration asks for the pages 1, 2, 3, ... in this order,
\* asks for a further page exactly when the response just received carries a
\* non-empty next, and stops at the first response whose next is empty; a
\* page request that fails (a cancellation met in the rate limiter's Wait
\* included) ends it with that error and no records; and it ends, for a
\* provider whose pages come to one without a next.
BitbucketPagesInvariant ==
    freq.Type = "bitbucket" =>
        /\ \A i \in 1..Len(pagesAsked) : pagesAsked[i] = i
        /\ \A i \in 1..(Len(pageLens) - 1) :
               pageLens[i] >= 0 /\ PageNext(i, freq.PerPage) /= 0
        /\ pageLens /= <<>> /\ pageLens[Len(pageLens)] >= 0
               => (fpc = "done" <=> PageNext(Len(pageLens), freq.PerPage) = 0)
        /\ fpc = "done" /\ fetched.err = "nil"
               => /\ pageLens[Len(pageLens)] >= 0
                  /\ PageNext(Len(pageLens), freq.PerPage) = 0
        /\ pageLens /= <<>> /\ pageLens[Len(pageLens)] = -1
               => /\ fpc = "done"
                  /\ fetched = [repos |-> <<>>, err |-> "failed to fetch page"]
                  /\ fresp.err /= "nil" /\ fresp.Repositories = <<>>
        /\ fpc = "done" => fetched.err \in {"nil", "failed to fetch page"}

BitbucketPagination ==
    /\ []BitbucketPagesInvariant
    /\ (freq.Type = "bitbucket" /\ fpc = "loop") ~> (fpc = "done")

\* C21 witness: a Bitbucket enumeration, cancelled on the way, that ended
\* without error after two pages, the second of them full and without a
\* next.
BitbucketPaginationWitness ==
    /\ freq.Type = "bitbucket" /\ fpc = "done" /\ fetched.err = "nil"
    /\ fctxDone
    /\ pagesAsked = <<1, 2>>
    /\ pageLens = <<freq.PerPage, freq.PerPage>>
    /\ Len(fetched.repos) >= 1

TerminalSnapshotDelivered ==
    <>(/\ received.total > 0
       /\ Processed(received) = received.total
       /\ received.inProgress = 0)

\* C24: with several workers calling StartJob and then one terminal
\* transition each, in any interleaving, no call is lost: completed, failed
\* and skipped are the numbers of calls of each kind, inProgress is the
\* number of jobs started and not over, and when all jobs are over
\* inProgress is 0 and IsComplete holds.
ConcurrentUpdatesNotLost ==
    spc /= "idle" =>
        /\ tracker.completed = calls.completed
        /\ tracker.failed = calls.failed
        /\ tracker.skipped = calls.skipped
        /\ tracker.inProgress = busy
        /\ todo = 0 /\ busy = 0
               => /\ tracker.inProgress = 0
                  /\ Processed(tracker) = tracker.total
                  /\ IsComplete(GetProgress(tracker))

\* C24 witness: a batch of the largest size run by two workers is over, with
\* calls of every kind made.
ConcurrentUpdatesNotLostWitness ==
    /\ spc = "finished" /\ maxWorkers = 2 /\ tracker.total = OverfullBatch
    /\ calls.completed >= 2 /\ calls.failed >= 1 /\ calls.skipped >= 1
    /\ IsComplete(GetProgress(tracker))

\* C25: after any sequence of tracker operations, terminal calls without a
\* StartJob before them and more terminal calls than total included, the
\* snapshot GetProgress returns and the snapshot a transition offers to the
\* subscription channel have completed+failed+skipped <= total,
\* completed+failed+skipped+inProgress <= total and inProgress >= 0.
ConsistentSnapshot(p) ==
    /\ Processed(p) <= p.total
    /\ Processed(p) + p.inProgress <= p.total
    /\ p.inProgress >= 0

SnapshotConsistency ==
    /\ lastOp = "GetProgress" => ConsistentSnapshot(snapshot)
    /\ lastOp \notin {"none", "GetProgress"}
           => ConsistentSnapshot(validateProgressConsistency(tracker))

\* C27: ForceSynchronize, when completed+failed+skipped < total and
\* inProgress > 0, moves min(total - processed, inProgress) from inProgress
\* to completed, and changes no counter otherwise; failed, skipped and total
\* stay as they are, and a second ForceSynchronize changes nothing.
ForceSynchronizeSemantics ==
    [][lastOp' = "ForceSynchronize" /\ ops' = ops + 1 =>
          LET processed == Processed(tracker)
              moved == IF processed < tracker.total /\ tracker.inProgress > 0
                       THEN Min(tracker.total - processed, tracker.inProgress)
                       ELSE 0
          IN  /\ tracker' = [tracker EXCEPT !.completed = @ + moved,
                                            !.inProgress = @ - moved]
              /\ ForceSynchronize(tracker') = tracker']_vars

\* C27 witness: two jobs were started, a snapshot taken, and ForceSynchronize
\* has moved both to completed.
ForceSynchronizeSemanticsWitness ==
    /\ lastOp = "ForceSynchronize" /\ ops = 3
    /\ snapshot.inProgress = 2 /\ snapshot.completed = 0
    /\ tracker.completed = 2 /\ tracker.inProgress = 0
    /\ tracker.total = snapshot.total

\* C28: CompleteJob, FailJob, SkipJob and their WithDetails variants set
\* inProgress to max(0, inProgress - 1), add one to their own counter and
\* leave the two other terminal counters and total alone; StartJob adds one
\* to inProgress and changes nothing else; inProgress is never negative.
TerminalFloor ==
    /\ [](tracker.inProgress >= 0)
    /\ [][ops' = ops + 1 =>
             LET floored == IF tracker.inProgress - 1 > 0
                            THEN tracker.inProgress - 1 ELSE 0
             IN  /\ lastOp' = "StartJob" =>
                        tracker' = [tracker EXCEPT !.inProgress = @ + 1]
                 /\ lastOp' \in {"CompleteJob", "CompleteJobWithDetails"} =>
                        tracker' = [tracker EXCEPT !.inProgress = floored,
                                                   !.completed = @ + 1]
                 /\ lastOp' \in {"FailJob", "FailJobWithDetails"} =>
                        tracker' = [tracker EXCEPT !.inProgress = floored,
                                                   !.failed = @ + 1]
                 /\ lastOp' \in {"SkipJob", "SkipJobWithDetails"} =>
                        tracker' = [tracker EXCEPT !.inProgress = floored,
                                                   !.skipped = @ + 1]]_vars

\* C28 witness: every operation so far was a terminal one, none preceded by
\* a StartJob, each kind was called, and inProgress is still 0.
TerminalFloorWitness ==
    /\ ops = Processed(tracker) /\ ops >= 3
    /\ tracker.completed >= 1 /\ tracker.failed >= 1 /\ tracker.skipped >= 1
    /\ tracker.inProgress = 0
    /\ lastOp = "SkipJobWithDetails"

\* C29: Retry on a failed job with RetryCount < MaxRetries adds one to
\* RetryCount, sets the status to pending and clears the error; on any other
\* job (pending, running, completed, skipped, or failed with RetryCount =
\* MaxRetries) it changes nothing; RetryCount <= MaxRetries after any
\* sequence of Mark* and Retry calls.
RetryEligibility ==
    /\ [](retryCount[1] <= JobMaxRetries)
    /\ [][lastOp' = "Retry" =>
             IF status[1] = JobStatusFailed /\ retryCount[1] < JobMaxRetries
             THEN /\ retryCount'[1] = retryCount[1] + 1
                  /\ status'[1] = JobStatusPending
                  /\ jobErr'[1] = "nil"
             ELSE UNCHANGED <<status, jobErr, retryCount>>]_vars

\* C29 witness: a job that was retried as often as it may be has failed
\* again, and the Retry called on it has left it failed.
RetryEligibilityWitness ==
    /\ lastOp = "Retry" /\ prevStatus = JobStatusFailed
    /\ status[1] = JobStatusFailed /\ jobErr[1] = "error"
    /\ retryCount[1] = JobMaxRetries

\* C26: with no cancellation and every clone attempt returning, Execute
\* returns a response for every batch size and every pool size; the
\* submitting loop, the workers sending into the bounded results channel
\* and the collecting loop never all wait for one another.
CircularWait ==
    /\ ucpc = "submit"
    /\ Cardinality(FlowBusy) = maxWorkers
    /\ \A j \in FlowBusy : stage[j] = "send"
    /\ Len(results) = ResultsCap

BatchTerminates ==
    /\ [](~CircularWait)
    /\ (ucpc = "submit") ~> (ucpc = "done")

\* C30: after a failed attempt number k (from 0) that may be retried
\* (k < maxRetries, an error that is not permanent and not "repository
\* exists") the worker waits retryDelay * 2^k before the next attempt; the
\* wait ends by the timer, and then attempt k + 1 follows, or early by the
\* pool's cancellation, and then the job is over; nothing else starts or
\* ends a wait.
Retryable(e) ==
    /\ e /= "nil"
    /\ e /= "RepositoryExistsError"
    /\ ~IsPermanentError(e)
ExponentialBackoff ==
    [][\A j \in Jobs :
          /\ (pc[j] = "cloning" /\ pc'[j] /= "cloning") =>
                 /\ (/\ status'[j] \notin {JobStatusCompleted,
                                             JobStatusSkipped}
                     /\ Retryable(lastErr'[j])
                     /\ attempt[j] < maxRetries) => pc'[j] = "backoff"
                 /\ pc'[j] = "backoff" =>
                        /\ Retryable(lastErr'[j])
                        /\ attempt[j] < maxRetries
                        /\ status'[j] = JobStatusRunning
                        /\ timer'[j] = retryDelay * 2^attempt[j]
                        /\ attempt'[j] = attempt[j]
          /\ (pc'[j] = "backoff" /\ pc[j] /= "backoff") => pc[j] = "cloning"
          /\ (pc[j] = "backoff" /\ pc'[j] /= "backoff") =>
                 \/ pc'[j] = "attempt" /\ attempt'[j] = attempt[j] + 1
                 \/ cancelled /\ pc'[j] = "done"
                               /\ status'[j] = JobStatusFailed
          /\ (pc[j] = "backoff" /\ pc'[j] = "backoff") =>
                 timer'[j] = timer[j]
      ]_vars

\* C30 witness: the third wait of a job whose base delay is 2, armed with
\* 8, after the first two waits ended by their timers
ExponentialBackoffWitness ==
    /\ retryDelay = 2
    /\ attempt[1] = 2
    /\ pc[1] = "backoff"
    /\ timer[1] = 8
    /\ ~cancelled

\* C31: the scheduler hands a normal-priority job to the worker pool only
\* at a moment when the high-priority queue is empty; a high-priority job
\* found queued after a normal job was dequeued is submitted first, and the
\* normal job goes back into the normal queue.
HighPriorityFirst ==
    [][/\ (jm.pc = "submitNormal" /\ jm'.pc = "select") => jm.high = <<>>
       /\ (jm.pc = "check" /\ jm'.pc /= "check" /\ jm.high /= <<>>) =>
              /\ jm'.pc = "submitFirst"
              /\ jm'.highJob = Head(jm.high)
       /\ (jm.pc = "submitFirst" /\ jm'.pc /= "submitFirst") =>
              /\ jm'.handed = Append(jm.handed, jm.highJob)
              /\ jm'.pc = "putBack"
       /\ (jm.pc = "putBack" /\ jm'.pc /= "putBack") =>
              jm'.normal = Append(jm.normal, jm.job)
      ]_vars

\* C37: no job the manager accepted is lost: in every state each accepted
\* job is in one of the queues, held by the scheduler or handed to
\* WorkerPool.SubmitJob, and none of them twice; without this no job can be
\* handed on exactly once in the end.
Occurrences(q, id) == Cardinality({i \in 1..Len(q) : q[i] = id})
Held == (IF jm.job = -1 THEN 0 ELSE 1) + (IF jm.highJob = -1 THEN 0 ELSE 1)
ManagerLosesNoJob ==
    jm.pc /= "none" =>
        /\ jm.taken = Len(jm.high) + Len(jm.normal) + Held + Len(jm.handed)
        /\ \A id \in jm.accepted :
               Occurrences(jm.high, id) + Occurrences(jm.normal, id)
                   + Occurrences(jm.handed, id)
                   + (IF jm.job = id THEN 1 ELSE 0)
                   + (IF jm.highJob = id THEN 1 ELSE 0) = 1

\* C33: any two jobs NewCloneJob created have different ids, so the
\* service's activeJobs map holds one entry for each job filed in it.
UniqueJobIds ==
    /\ \A i, k \in 1..Len(idgen.ids) : i /= k => idgen.ids[i] /= idgen.ids[k]
    /\ (\A i \in 1..Len(idgen.ids) : idgen.ids[i] \in idgen.activeJobs) =>
           Cardinality(idgen.activeJobs) = Len(idgen.ids)

\* C32: no two jobs of an accepted batch that execute at the same time have
\* the same destination path.
DisjointDestinations ==
    \A i, k \in DestCloning : i /= k => DestPath(i) /= DestPath(k)

\* C34: a submission that failed is not counted as outstanding: once every
\* job the pool accepted has finished, the wait group is at zero, so Wait
\* and Close's drain return.
FailedSubmissionNotWaitedFor ==
    (\A j \in Jobs : pc[j] \in {"new", "done"}) => wg = 0

\* C35: whatever Execute, SubmitJob and Wait calls one pool sees, a second
\* batch on it included, wp.results is closed at most once and no worker
\* sends on it after it was closed.
ResultsClosedSafely ==
    /\ rp.closes <= 1
    /\ rp.panic /= "send on closed channel"

\* C35, one batch: the first Execute on a pool closes wp.results once, after
\* its last worker has sent.
FirstRunClosesOnce ==
    rp.run <= 1 => (rp.closes <= 1 /\ rp.panic = "none"
                    /\ (rp.closed => rp.running = 0))

\* C36: Close closes the subscription channel, the subscriber sees it
\* closed only then, and a transition made after or next to Close updates
\* the counters and never sends on the closed channel.
TrackerCloseSafe ==
    /\ ptc.saw = "closed" => ptc.updatesClosed
    /\ ptc.panic = "none"

\* C36, the part that holds: a transition next to Close, before
\* close(pt.updates) has run, changes the counters and does not panic.
CloseBeforeUpdatesClosed ==
    ~ptc.late => ptc.panic = "none"

\* C38: once CancelJob or CancelAllJobs has marked a pending or running job
\* failed and removed it from s.activeJobs, no worker changes its status to
\* running, completed or skipped, and no clone attempt is started for it.
CancelledStaysCancelled ==
    [][\A j \in svc.cancelled :
          /\ status'[j] \notin {JobStatusRunning, JobStatusCompleted,
                                JobStatusSkipped}
          /\ cloneCalls'[j] <= cloneCalls[j]
      ]_vars

\* C39: after CloneBatch, once every job of the batch has reached a
\* terminal state, GetProgress comes to report completed + failed +
\* skipped = total and IsComplete, so a caller polling it ends.
ServiceProgressCompletes ==
    (\A j \in Jobs : status[j] \in TerminalStatus) ~>
        (/\ Processed(ServiceGetProgress) = ServiceGetProgress.total
         /\ IsComplete(ServiceGetProgress))

\* C40: after any sequence of Wait, Allow, UpdateRemaining(n) and
\* UpdateResetTime(t), with any integer n and any t, the bucket's token
\* count is within [0, capacity].
TokenBucketBounds ==
    /\ rl.tokens >= 0
    /\ rl.tokens <= rl.limit * OneToken

\* C40, the part that holds: no refill and no update raises the token count
\* above the capacity.
TokensAtMostCapacity == rl.tokens <= rl.limit * OneToken

====
